---- MODULE Spec2Model ----
(***************************************************************************)
(* Order lifecycle and rider assignment of the food-delivery backend.      *)
(*                                                                         *)
(* Every route handler is an async function: each `await prisma...` is one *)
(* atomic database operation, and other requests may run between two of    *)
(* them.  A request therefore occupies a slot and advances one database    *)
(* operation per step; the synchronous code that follows an await (checks, *)
(* early returns, `new Date()`, socket emits, the response) belongs to the *)
(* step of that await.                                                     *)
(*                                                                         *)
(* Money is modelled in whole rupees, time in clock ticks of TickMs        *)
(* milliseconds.                                                           *)
(***************************************************************************)
EXTENDS Integers, Sequences, FiniteSets, TLC

VARIABLES restaurants, menuItems, addresses, riders, orders, tracking,
          published, now, reqs, stripe, reviews

vars == <<restaurants, menuItems, addresses, riders, orders, tracking,
          published, now, reqs, stripe, reviews>>

(* null of a string-valued column / of a number- or date-valued column. *)
NULL == "null"
NONE == 0 - 1

(***************************************************************************)
(* Bounds of the model.                                                    *)
(***************************************************************************)
MaxOrders == 1
MaxTracking == 3
MaxTicks == 3
MaxIntents == 1
MaxBacklog == 22
MaxAddresses == 3
MaxPaymentRows == 4
MaxReviews == 2
Slots == {1, 2}

(***************************************************************************)
(* Users, roles and the seeded entities.                                   *)
(***************************************************************************)
Customers == {"c1", "c2"}
Owners == {"ro1", "ro2"}
RiderUsers == {"r1", "r2"}
Admins == {"ad"}
Users == Customers \cup Owners \cup RiderUsers \cup Admins

Role(u) ==
  IF u \in Customers THEN "customer"
  ELSE IF u \in Owners THEN "restaurant"
  ELSE IF u \in RiderUsers THEN "rider"
  ELSE "admin"

RestaurantIds == {"rest1", "rest2"}
MenuItemIds == {"m1", "m2", "m3"}
AddressIds == {"a1", "a2"}
RiderIds == {"rp1", "rp2"}
OrderIds == 1 .. MaxOrders

validStatuses ==
  <<"pending", "confirmed", "preparing", "ready", "picked_up", "delivered",
    "cancelled">>

StatusSet == {validStatuses[i] : i \in DOMAIN validStatuses}

(* Coordinates are whole hundredths of a degree: 17.42 N, 78.47 E. *)
SeedLatitude == 1742
SeedLongitude == 7847

(* Restaurant rows (restaurant.userId is the owner's user id). *)
SeedRestaurants ==
  [r \in RestaurantIds |->
     [userId |-> IF r = "rest1" THEN "ro1" ELSE "ro2",
      status |-> "active", isOpen |-> TRUE,
      deliveryFee |-> 40, minimumOrder |-> 100,
      latitude |-> SeedLatitude, longitude |-> SeedLongitude,
      rating |-> 45, totalReviews |-> 150]]

SeedMenuItems ==
  [m \in MenuItemIds |->
     [restaurantId |-> IF m = "m3" THEN "rest2" ELSE "rest1",
      price |-> IF m = "m1" THEN 100 ELSE IF m = "m2" THEN 50 ELSE 80,
      isAvailable |-> TRUE]]

SeedAddresses ==
  [a \in AddressIds |->
     [userId |-> IF a = "a1" THEN "c1" ELSE "c2", isDefault |-> TRUE,
      createdAt |-> 0]]

(* Rider profile rows: the profile has its own id, distinct from userId. *)
SeedRiders ==
  [p \in RiderIds |->
     [userId |-> IF p = "rp1" THEN "r1" ELSE "r2", isAvailable |-> TRUE]]

(***************************************************************************)
(* Clock.                                                                  *)
(***************************************************************************)
MsPerMinute == 1000 * 60
TickMs == 2 * MsPerMinute

(***************************************************************************)
(* Pure helpers.                                                           *)
(***************************************************************************)
(* JavaScript truthiness of a nullable number. *)
Truthy(x) == x # NONE /\ x # 0

(* Math.round(n / d) for n >= 0, d > 0: round half up. *)
MathRound(n, d) == (2 * n + d) \div (2 * d)

RECURSIVE SumItems(_)
SumItems(items) ==
  IF items = <<>> THEN 0
  ELSE Head(items).price * Head(items).quantity + SumItems(Tail(items))

DefaultDeliveryFee == 40

calculateOrderTotals(items, restaurant) ==
  LET subtotal == SumItems(items)
      deliveryFee == IF Truthy(restaurant.deliveryFee)
                     THEN restaurant.deliveryFee ELSE DefaultDeliveryFee
      platformFee == MathRound(subtotal * 2, 100)
      taxes == MathRound(subtotal * 5, 100)
  IN [subtotal |-> subtotal, deliveryFee |-> deliveryFee,
      platformFee |-> platformFee, taxes |-> taxes,
      total |-> subtotal + deliveryFee + platformFee + taxes]

(***************************************************************************)
(* Requests in flight and their responses.                                 *)
(***************************************************************************)
Idle ==
  [op |-> "idle", pc |-> "idle", user |-> NULL, oid |-> 0, target |-> NULL,
   msg |-> NULL, rest |-> NULL, addr |-> NULL, items |-> <<>>,
   found |-> FALSE, snap |-> NULL, rider |-> NULL, data |-> NULL, at |-> 0,
   wrote |-> 0, pubs |-> 0, code |-> 0, message |-> NULL, result |-> <<>>]

NewReq(op, u) == [Idle EXCEPT !.op = op, !.user = u]

(* res.status(code).json({ message }): the handler returns; the slot keeps *)
(* the response until the client has received it (ResponseSent).           *)
Reply(r, code, message) ==
  [r EXCEPT !.pc = "done", !.code = code, !.message = message]

Respond(s, r, code, message) ==
  reqs' = [reqs EXCEPT ![s] = Reply(r, code, message)]

Exists(id) == id \in DOMAIN orders

(* The payment processor before any intent or refund has been created. *)
NoPayments == [intents |-> <<>>, refunds |-> <<>>]

(* The store with its seeded rows and no order. *)
EmptyStore ==
  /\ menuItems = SeedMenuItems
  /\ addresses = SeedAddresses
  /\ riders = SeedRiders
  /\ orders = <<>>
  /\ tracking = <<>>
  /\ published = <<>>
  /\ now = 0
  /\ stripe = NoPayments
  /\ reviews = <<>>
  /\ reqs = [s \in Slots |-> Idle]

Init ==
  /\ restaurants = SeedRestaurants
  /\ EmptyStore

(* Only differences of clock values are ever read, so the clock starts   *)
(* running with the first order.  A tick is minutes long and a request   *)
(* lasts milliseconds: the clock does not tick while a request is being  *)
(* served.                                                               *)
Tick ==
  /\ orders # <<>>
  /\ \A s \in Slots : reqs[s].pc = "idle"
  /\ now < MaxTicks
  /\ now' = now + 1
  /\ UNCHANGED <<restaurants, menuItems, addresses, riders, orders, tracking,
                 published, reqs, stripe, reviews>>

CanStart(s) == reqs[s].pc = "idle"

ResponseSent(s) ==
  /\ reqs[s].pc = "done"
  /\ reqs' = [reqs EXCEPT ![s] = Idle]
  /\ UNCHANGED <<restaurants, menuItems, addresses, riders, orders, tracking,
                 published, now, stripe, reviews>>

(* Bound of the model: no further status write is taken once the tracking *)
(* table, with the rows still owed by requests that have written their    *)
(* order, holds MaxTracking rows.  (A rider claim needs no bound: an      *)
(* order's rider is never cleared, so claims cannot repeat.)              *)
OwedRows == Cardinality({s \in Slots : reqs[s].pc = "createTracking"})

CanWrite == Len(tracking) + OwedRows < MaxTracking

(* The same bound for the writes of the payment routes, which come after *)
(* the lifecycle writes of their order.                                  *)
CanRecordPayment == Len(tracking) + OwedRows < MaxPaymentRows

(* io.to(topic).emit(event, payload) *)
Emit(topic, event, oid, status) ==
  [topic |-> topic, event |-> event, orderId |-> oid, status |-> status]

(***************************************************************************)
(* POST /orders : createOrder (customer only).                             *)
(***************************************************************************)
PendingCreates == Cardinality({s \in Slots : reqs[s].op = "createOrder"})

(* The request arrives and its first query runs. *)
CreateOrderStart(s, u, rest, addr, items) ==
  LET r == [NewReq("createOrder", u) EXCEPT
              !.rest = rest, !.addr = addr, !.items = items]
      found == rest \in DOMAIN restaurants
      restaurant == restaurants[rest]
  IN /\ CanStart(s)
     /\ Role(u) = "customer"
     /\ Len(orders) + PendingCreates < MaxOrders
     /\ IF ~found \/ restaurant.status # "active" \/ ~restaurant.isOpen
        THEN Respond(s, r, 400, "Restaurant is not available for orders")
        ELSE reqs' = [reqs EXCEPT ![s] =
                        [r EXCEPT !.pc = "findAddress", !.data = restaurant]]
     /\ UNCHANGED <<restaurants, menuItems, addresses, riders, orders,
                    tracking, published, now, stripe, reviews>>

(* Variant: the address only has to exist. *)
CreateOrderFindAddress_AnyOwner(s) ==
  LET r == reqs[s]
      found == r.addr \in DOMAIN addresses
  IN /\ r.op = "createOrder" /\ r.pc = "findAddress"
     /\ IF ~found
        THEN Respond(s, r, 400, "Invalid delivery address")
        ELSE /\ reqs' = [reqs EXCEPT ![s].pc = "findMenuItems"]
     /\ UNCHANGED <<restaurants, menuItems, addresses, riders, orders,
                    tracking, published, now, stripe, reviews>>

CreateOrderFindAddress(s) ==
  LET r == reqs[s]
      found == r.addr \in DOMAIN addresses
      address == addresses[r.addr]
  IN /\ r.op = "createOrder" /\ r.pc = "findAddress"
     /\ IF ~found \/ address.userId # r.user
        THEN Respond(s, r, 400, "Invalid delivery address")
        ELSE /\ reqs' = [reqs EXCEPT ![s].pc = "findMenuItems"]
     /\ UNCHANGED <<restaurants, menuItems, addresses, riders, orders,
                    tracking, published, now, stripe, reviews>>

(* Order items priced from the menu rows found (orders.js 74-82). *)
OrderItems(items) ==
  [i \in DOMAIN items |->
     [menuItemId |-> items[i].menuItemId, quantity |-> items[i].quantity,
      price |-> menuItems[items[i].menuItemId].price]]

(* Variant: the total with the delivery fee is compared. *)
BelowMinimum_WithFee(subtotal, restaurant) ==
  subtotal + restaurant.deliveryFee < restaurant.minimumOrder

BelowMinimum(subtotal, restaurant) == subtotal < restaurant.minimumOrder

CreateOrderFindMenuItems(s) ==
  LET r == reqs[s]
      menuItemIds == {r.items[i].menuItemId : i \in DOMAIN r.items}
      found == {m \in DOMAIN menuItems :
                  /\ m \in menuItemIds
                  /\ menuItems[m].restaurantId = r.rest
                  /\ menuItems[m].isAvailable}
      orderItems == OrderItems(r.items)
      totals == calculateOrderTotals(orderItems, r.data)
  IN /\ r.op = "createOrder" /\ r.pc = "findMenuItems"
     /\ IF Cardinality(found) # Len(r.items)
        THEN Respond(s, r, 400, "Some menu items are not available")
        ELSE IF BelowMinimum(totals.subtotal, r.data)
        THEN Respond(s, r, 400, "Minimum order value")
        ELSE /\ reqs' = [reqs EXCEPT ![s].pc = "createOrder",
                            ![s].data = [items |-> orderItems,
                                         totals |-> totals]]
     /\ UNCHANGED <<restaurants, menuItems, addresses, riders, orders,
                    tracking, published, now, stripe, reviews>>

NewOrder(r) ==
  [customerId |-> r.user, restaurantId |-> r.rest, addressId |-> r.addr,
   items |-> r.data.items,
   subtotal |-> r.data.totals.subtotal,
   deliveryFee |-> r.data.totals.deliveryFee,
   platformFee |-> r.data.totals.platformFee,
   taxes |-> r.data.totals.taxes,
   total |-> r.data.totals.total,
   status |-> "pending", paymentStatus |-> "pending", paymentId |-> NULL,
   riderId |-> NULL, createdAt |-> now,
   confirmedAt |-> NONE, preparingAt |-> NONE, readyAt |-> NONE,
   pickedUpAt |-> NONE, deliveredAt |-> NONE, cancelledAt |-> NONE,
   cancellationReason |-> NULL, actualTime |-> NONE]

(* The store of spec.md, a key/value-and-query store: a row is stored and *)
(* removed as asked, whatever rows reference it or it references.  (A     *)
(* store that checks references rejects the write instead.)               *)
StoreChecksReferences == FALSE

CreateOrderInsert(s) ==
  LET r == reqs[s] IN
  /\ r.op = "createOrder" /\ r.pc = "createOrder"
  /\ CanWrite
  /\ IF StoreChecksReferences /\ r.addr \notin DOMAIN addresses
     THEN /\ Respond(s, r, 500, "Internal server error")
          /\ orders' = orders
     ELSE /\ orders' = Append(orders, NewOrder(r))
          /\ reqs' = [reqs EXCEPT ![s].pc = "createTracking",
                                  ![s].oid = Len(orders) + 1,
                                  ![s].wrote = @ + 1]
  /\ UNCHANGED <<restaurants, menuItems, addresses, riders, tracking,
                 published, now, stripe, reviews>>

TrackingRow(oid, status, message) ==
  [orderId |-> oid, status |-> status, message |-> message,
   timestamp |-> now]

CreateOrderTrack(s) ==
  LET r == reqs[s] IN
  /\ r.op = "createOrder" /\ r.pc = "createTracking"
  /\ tracking' = Append(tracking,
                    TrackingRow(r.oid, "pending", "Order placed successfully"))
  /\ published' = Append(published,
                     Emit(<<"restaurant", r.rest>>, "new_order", r.oid, NULL))
  /\ Respond(s, [r EXCEPT !.wrote = @ + 1, !.pubs = @ + 1], 201,
             "Order placed successfully")
  /\ UNCHANGED <<restaurants, menuItems, addresses, riders, orders, now,
                 stripe, reviews>>

CreateOrderStep(s) ==
  \/ CreateOrderFindAddress(s)
  \/ CreateOrderFindMenuItems(s)
  \/ CreateOrderInsert(s)
  \/ CreateOrderTrack(s)

(***************************************************************************)
(* PATCH /orders/:id/status : updateOrderStatus (any authenticated user).  *)
(***************************************************************************)
RestaurantTargets == {"confirmed", "preparing", "ready", "cancelled"}
RiderTargets == {"picked_up", "delivered"}

(* Variant: the restaurant branch forgets to compare the owner. *)
isAuthorized_AnyRestaurant(u, order, status) ==
  IF Role(u) = "restaurant"
  THEN status \in RestaurantTargets
  ELSE IF Role(u) = "rider" /\ order.riderId = u
  THEN status \in RiderTargets
  ELSE Role(u) = "admin"

isAuthorized(u, order, status) ==
  IF Role(u) = "restaurant" /\ restaurants[order.restaurantId].userId = u
  THEN status \in RestaurantTargets
  ELSE IF Role(u) = "rider" /\ order.riderId = u
  THEN status \in RiderTargets
  ELSE Role(u) = "admin"

(* Math.floor((now - createdAt) / (1000 * 60)), clock values in ticks. *)
MinutesBetween(from, to) == ((to - from) * TickMs) \div MsPerMinute

(* updateData of orders.js 420-443, applied to the stored row. *)
ApplyStatus(row, status, at, createdAt) ==
  LET withStatus == [row EXCEPT !.status = status] IN
  CASE status = "confirmed" -> [withStatus EXCEPT !.confirmedAt = at]
    [] status = "preparing" -> [withStatus EXCEPT !.preparingAt = at]
    [] status = "ready" -> [withStatus EXCEPT !.readyAt = at]
    [] status = "picked_up" -> [withStatus EXCEPT !.pickedUpAt = at]
    [] status = "delivered" ->
         [withStatus EXCEPT !.deliveredAt = at,
                            !.actualTime = MinutesBetween(createdAt, at)]
    [] status = "cancelled" -> [withStatus EXCEPT !.cancelledAt = at]
    [] OTHER -> withStatus

(* The request arrives and its first query runs. *)
UpdateStatusStart(s, u, id, status, message) ==
  LET r == [NewReq("updateOrderStatus", u) EXCEPT
              !.oid = id, !.target = status, !.msg = message]
  IN
  /\ CanStart(s)
  /\ IF status \notin StatusSet
     THEN Respond(s, r, 400, "Invalid status")
     ELSE IF ~Exists(r.oid)
     THEN Respond(s, r, 404, "Order not found")
     ELSE LET order == orders[r.oid]
              seen == [r EXCEPT !.found = TRUE, !.snap = order, !.at = now]
          IN IF ~isAuthorized(r.user, order, r.target)
             THEN Respond(s, seen, 403,
                          "Not authorized to update this order status")
             ELSE /\ reqs' = [reqs EXCEPT ![s] =
                             [seen EXCEPT !.pc = "update"]]
  /\ UNCHANGED <<restaurants, menuItems, addresses, riders, orders, tracking,
                 published, now, stripe, reviews>>

UpdateStatusWrite(s) ==
  LET r == reqs[s] IN
  /\ r.op = "updateOrderStatus" /\ r.pc = "update"
  /\ CanWrite
  /\ orders' = [orders EXCEPT ![r.oid] =
                  ApplyStatus(@, r.target, r.at, r.snap.createdAt)]
  /\ reqs' = [reqs EXCEPT ![s].pc = "createTracking", ![s].wrote = @ + 1]
  /\ UNCHANGED <<restaurants, menuItems, addresses, riders, tracking,
                 published, now, stripe, reviews>>

UpdateStatusTrack(s) ==
  LET r == reqs[s]
      message == IF r.msg = NULL THEN <<"Order", r.target>> ELSE r.msg
  IN
  /\ r.op = "updateOrderStatus" /\ r.pc = "createTracking"
  /\ tracking' = Append(tracking, TrackingRow(r.oid, r.target, message))
  /\ published' = published \o
       << Emit(<<"user", r.snap.customerId>>, "order_status_update",
               r.oid, r.target),
          Emit(<<"order", r.oid>>, "status_update", r.oid, r.target) >>
  /\ Respond(s, [r EXCEPT !.wrote = @ + 1, !.pubs = @ + 2], 200,
             "Order status updated successfully")
  /\ UNCHANGED <<restaurants, menuItems, addresses, riders, orders, now,
                 stripe, reviews>>

UpdateStatusStep(s) ==
  \/ UpdateStatusWrite(s)
  \/ UpdateStatusTrack(s)

(***************************************************************************)
(* PATCH /orders/:id/cancel : cancelOrder (customer only).                 *)
(***************************************************************************)
CancelWindowMinutes == 5

(* Variant: the difference is divided by 1000 only (seconds). *)
PastCancelWindow_Seconds(createdAt, at) ==
  (at - createdAt) * TickMs > CancelWindowMinutes * 1000

(* timeDiff > 5 with timeDiff = (new Date() - createdAt) / (1000 * 60) *)
PastCancelWindow(createdAt, at) ==
  (at - createdAt) * TickMs > CancelWindowMinutes * MsPerMinute

(* Variant: an order in preparation can still be cancelled. *)
Cancellable_Preparing(status) ==
  status \in {"pending", "confirmed", "preparing"}

Cancellable(status) == status \in {"pending", "confirmed"}

(* The request arrives and its first query runs. *)
CancelStart(s, u, id, reason) ==
  LET r == [NewReq("cancelOrder", u) EXCEPT !.oid = id, !.msg = reason] IN
  /\ CanStart(s)
  /\ Role(u) = "customer"
  /\ IF ~Exists(r.oid)
     THEN Respond(s, r, 404, "Order not found")
     ELSE LET order == orders[r.oid]
              seen == [r EXCEPT !.found = TRUE, !.snap = order, !.at = now]
          IN IF order.customerId # r.user
             THEN Respond(s, seen, 403, "Not authorized to cancel this order")
             ELSE IF ~Cancellable(order.status)
             THEN Respond(s, seen, 400,
                          "Order cannot be cancelled at this stage")
             ELSE IF PastCancelWindow(order.createdAt, now)
                     /\ order.status = "confirmed"
             THEN Respond(s, seen, 400,
                    "Order cannot be cancelled after 5 minutes of confirmation")
             ELSE /\ reqs' = [reqs EXCEPT ![s] =
                             [seen EXCEPT !.pc = "update"]]
  /\ UNCHANGED <<restaurants, menuItems, addresses, riders, orders, tracking,
                 published, now, stripe, reviews>>

CancelWrite(s) ==
  LET r == reqs[s] IN
  /\ r.op = "cancelOrder" /\ r.pc = "update"
  /\ CanWrite
  /\ orders' = [orders EXCEPT ![r.oid] =
        [@ EXCEPT !.status = "cancelled", !.cancelledAt = r.at,
                  !.cancellationReason = IF r.msg = NULL THEN @ ELSE r.msg]]
  /\ reqs' = [reqs EXCEPT ![s].pc = "createTracking", ![s].wrote = @ + 1]
  /\ UNCHANGED <<restaurants, menuItems, addresses, riders, tracking,
                 published, now, stripe, reviews>>

CancelTrack(s) ==
  LET r == reqs[s]
      reason == IF r.msg = NULL THEN "No reason provided" ELSE r.msg
  IN
  /\ r.op = "cancelOrder" /\ r.pc = "createTracking"
  /\ tracking' = Append(tracking,
       TrackingRow(r.oid, "cancelled", <<"Order cancelled by customer", reason>>))
  /\ published' = Append(published,
       Emit(<<"restaurant", r.snap.restaurantId>>, "order_cancelled",
            r.oid, NULL))
  /\ Respond(s, [r EXCEPT !.wrote = @ + 1, !.pubs = @ + 1], 200,
             "Order cancelled successfully")
  /\ UNCHANGED <<restaurants, menuItems, addresses, riders, orders, now,
                 stripe, reviews>>

CancelStep(s) ==
  \/ CancelWrite(s)
  \/ CancelTrack(s)

(***************************************************************************)
(* POST /riders/accept-order/:orderId : acceptOrder (rider only).          *)
(***************************************************************************)
(* prisma.rider.findUnique({ where: { userId } }) *)
RiderOf(u) == {p \in DOMAIN riders : riders[p].userId = u}

(* The request arrives and its first query runs. *)
AcceptStart(s, u, id) ==
  LET r == [NewReq("acceptOrder", u) EXCEPT !.oid = id] IN
  /\ CanStart(s)
  /\ Role(u) = "rider"
  /\ IF RiderOf(u) = {}
     THEN Respond(s, r, 404, "Rider profile not found")
     ELSE LET p == CHOOSE p \in RiderOf(u) : TRUE IN
          IF ~riders[p].isAvailable
          THEN Respond(s, r, 400, "Rider is not available")
          ELSE reqs' = [reqs EXCEPT ![s] =
                          [r EXCEPT !.pc = "findOrder", !.rider = p]]
  /\ UNCHANGED <<restaurants, menuItems, addresses, riders, orders, tracking,
                 published, now, stripe, reviews>>

(* Variant: the rider already on the order is not looked at. *)
AcceptRejection_AnyRider(found, order) ==
  IF ~found THEN "Order not found"
  ELSE IF order.status # "ready" THEN "Order is not ready for pickup"
  ELSE NULL

(* The checks of riders.js 375-394 on the row just read. *)
AcceptRejection(found, order) ==
  IF ~found THEN "Order not found"
  ELSE IF order.status # "ready" THEN "Order is not ready for pickup"
  ELSE IF order.riderId # NULL
  THEN "Order has already been accepted by another rider"
  ELSE NULL

AcceptFindOrder(s) ==
  LET r == reqs[s]
      found == Exists(r.oid)
      order == orders[r.oid]
      seen == IF found THEN [r EXCEPT !.found = TRUE, !.snap = order] ELSE r
      rejection == AcceptRejection(found, order)
  IN
  /\ r.op = "acceptOrder" /\ r.pc = "findOrder"
  /\ IF rejection # NULL
     THEN Respond(s, seen, IF found THEN 400 ELSE 404, rejection)
     ELSE /\ reqs' = [reqs EXCEPT ![s] = [seen EXCEPT !.pc = "update"]]
  /\ UNCHANGED <<restaurants, menuItems, addresses, riders, orders, tracking,
                 published, now, stripe, reviews>>

(* prisma.order.update({ where: { id }, data: { riderId: rider.id } }) *)
AssignRider(row, p) == [row EXCEPT !.riderId = p]

AcceptWrite(s) ==
  LET r == reqs[s] IN
  /\ r.op = "acceptOrder" /\ r.pc = "update"
  /\ orders' = [orders EXCEPT ![r.oid] = AssignRider(@, r.rider)]
  /\ reqs' = [reqs EXCEPT ![s].pc = "createTracking", ![s].wrote = @ + 1]
  /\ UNCHANGED <<restaurants, menuItems, addresses, riders, tracking,
                 published, now, stripe, reviews>>

AcceptTrack(s) ==
  LET r == reqs[s] IN
  /\ r.op = "acceptOrder" /\ r.pc = "createTracking"
  /\ tracking' = Append(tracking,
       TrackingRow(r.oid, "ready", <<"Order accepted by rider", r.user>>))
  /\ published' = published \o
       << Emit(<<"user", r.snap.customerId>>, "rider_assigned", r.oid, NULL),
          Emit(<<"restaurant", r.snap.restaurantId>>, "rider_assigned",
               r.oid, NULL) >>
  /\ Respond(s, [r EXCEPT !.wrote = @ + 1, !.pubs = @ + 2], 200,
             "Order accepted successfully")
  /\ UNCHANGED <<restaurants, menuItems, addresses, riders, orders, now,
                 stripe, reviews>>

AcceptStep(s) ==
  \/ AcceptFindOrder(s)
  \/ AcceptWrite(s)
  \/ AcceptTrack(s)

(***************************************************************************)
(* Payments (payments.js).  The processor keeps the intents created for    *)
(* the orders and the refunds issued; an intent succeeds when the customer *)
(* pays it at the processor, which then sends its events to the webhook,   *)
(* at any later time and possibly more than once.                          *)
(***************************************************************************)
IntentNames == <<"pi1", "pi2", "pi3">>

IntentIndex(pi) == {i \in DOMAIN stripe.intents : IntentNames[i] = pi}

(* The customer pays intent i at the processor. *)
IntentSucceeds(i) ==
  /\ i \in DOMAIN stripe.intents
  /\ stripe.intents[i].status = "requires_payment_method"
  /\ stripe' = [stripe EXCEPT !.intents[i].status = "succeeded"]
  /\ UNCHANGED <<restaurants, menuItems, addresses, riders, orders, tracking,
                 published, now, reqs, reviews>>

(* POST /payments/create-intent *)
CreateIntentStart(s, u, id) ==
  LET r == [NewReq("createIntent", u) EXCEPT !.oid = id]
      found == Exists(id)
      order == orders[id]
      seen == IF found THEN [r EXCEPT !.found = TRUE, !.snap = order] ELSE r
  IN
  /\ CanStart(s)
  /\ Role(u) = "customer"
  /\ IF ~found THEN Respond(s, seen, 404, "Order not found")
     ELSE IF order.customerId # u
     THEN Respond(s, seen, 403, "Not authorized to pay for this order")
     ELSE IF order.paymentStatus = "completed"
     THEN Respond(s, seen, 400, "Order has already been paid")
     ELSE reqs' = [reqs EXCEPT ![s] = [seen EXCEPT !.pc = "createIntent"]]
  /\ UNCHANGED <<restaurants, menuItems, addresses, riders, orders, tracking,
                 published, now, stripe, reviews>>

(* stripe.paymentIntents.create *)
CreateIntentStripe(s) ==
  LET r == reqs[s] IN
  /\ r.op = "createIntent" /\ r.pc = "createIntent"
  /\ Len(stripe.intents) < MaxIntents
  /\ stripe' = [stripe EXCEPT !.intents =
                  Append(@, [orderId |-> r.oid, customerId |-> r.user,
                             status |-> "requires_payment_method"])]
  /\ reqs' = [reqs EXCEPT ![s].pc = "update",
                          ![s].data = IntentNames[Len(stripe.intents) + 1]]
  /\ UNCHANGED <<restaurants, menuItems, addresses, riders, orders, tracking,
                 published, now, reviews>>

CreateIntentWrite(s) ==
  LET r == reqs[s] IN
  /\ r.op = "createIntent" /\ r.pc = "update"
  /\ orders' = [orders EXCEPT ![r.oid].paymentId = r.data]
  /\ Respond(s, [r EXCEPT !.wrote = @ + 1], 200, NULL)
  /\ UNCHANGED <<restaurants, menuItems, addresses, riders, tracking,
                 published, now, stripe, reviews>>

(* POST /payments/confirm-payment *)
ConfirmPaymentStart(s, u, pi, id) ==
  LET r == [NewReq("confirmPayment", u) EXCEPT !.oid = id, !.data = pi]
      found == Exists(id)
      order == orders[id]
      seen == IF found THEN [r EXCEPT !.found = TRUE, !.snap = order] ELSE r
  IN
  /\ CanStart(s)
  /\ Role(u) = "customer"
  /\ IF ~found THEN Respond(s, seen, 404, "Order not found")
     ELSE IF order.customerId # u
     THEN Respond(s, seen, 403,
                  "Not authorized to confirm payment for this order")
     ELSE reqs' = [reqs EXCEPT ![s] = [seen EXCEPT !.pc = "retrieve"]]
  /\ UNCHANGED <<restaurants, menuItems, addresses, riders, orders, tracking,
                 published, now, stripe, reviews>>

(* stripe.paymentIntents.retrieve: an unknown id makes the call throw. *)
ConfirmPaymentRetrieve(s) ==
  LET r == reqs[s]
      known == IntentIndex(r.data)
  IN
  /\ r.op = "confirmPayment" /\ r.pc = "retrieve"
  /\ IF known = {} THEN Respond(s, r, 500, "Internal server error")
     ELSE IF \E i \in known : stripe.intents[i].status = "succeeded"
     THEN reqs' = [reqs EXCEPT ![s].pc = "update"]
     ELSE Respond(s, r, 400, "Payment not completed")
  /\ UNCHANGED <<restaurants, menuItems, addresses, riders, orders, tracking,
                 published, now, stripe, reviews>>

(* data of payments.js 124-127, from the row read at the start. *)
PaymentConfirmed(row, snap) ==
  [row EXCEPT !.paymentStatus = "completed",
              !.status = IF snap.status = "pending" THEN "confirmed"
                         ELSE snap.status]

ConfirmPaymentWrite(s) ==
  LET r == reqs[s] IN
  /\ r.op = "confirmPayment" /\ r.pc = "update"
  /\ CanRecordPayment
  /\ orders' = [orders EXCEPT ![r.oid] = PaymentConfirmed(@, r.snap)]
  /\ reqs' = [reqs EXCEPT ![s].pc = "createTracking", ![s].wrote = @ + 1]
  /\ UNCHANGED <<restaurants, menuItems, addresses, riders, tracking,
                 published, now, stripe, reviews>>

ConfirmPaymentTrack(s) ==
  LET r == reqs[s] IN
  /\ r.op = "confirmPayment" /\ r.pc = "createTracking"
  /\ tracking' = Append(tracking,
       TrackingRow(r.oid, "confirmed", "Payment completed successfully"))
  /\ published' = Append(published,
       Emit(<<"restaurant", r.snap.restaurantId>>, "payment_completed",
            r.oid, NULL))
  /\ Respond(s, [r EXCEPT !.wrote = @ + 1, !.pubs = @ + 1], 200,
             "Payment confirmed successfully")
  /\ UNCHANGED <<restaurants, menuItems, addresses, riders, orders, now,
                 stripe, reviews>>

(* POST /payments/webhook, event payment_intent.succeeded of intent i: the *)
(* handler's first statement is the order update.                          *)
WebhookSucceeded(s, i) ==
  LET r == [NewReq("webhook", NULL) EXCEPT
              !.oid = stripe.intents[i].orderId, !.data = IntentNames[i]]
  IN
  /\ CanStart(s)
  /\ i \in DOMAIN stripe.intents
  /\ stripe.intents[i].status = "succeeded"
  /\ CanRecordPayment
  /\ orders' = [orders EXCEPT ![r.oid].paymentStatus = "completed",
                              ![r.oid].status = "confirmed"]
  /\ reqs' = [reqs EXCEPT ![s] =
                  [r EXCEPT !.pc = "createTracking", !.wrote = 1]]
  /\ UNCHANGED <<restaurants, menuItems, addresses, riders, tracking,
                 published, now, stripe, reviews>>

WebhookTrack(s) ==
  LET r == reqs[s] IN
  /\ r.op = "webhook" /\ r.pc = "createTracking"
  /\ tracking' = Append(tracking,
       TrackingRow(r.oid, "confirmed", "Payment completed via webhook"))
  /\ Respond(s, [r EXCEPT !.wrote = @ + 1], 200, "received")
  /\ UNCHANGED <<restaurants, menuItems, addresses, riders, orders,
                 published, now, stripe, reviews>>

(* Event payment_intent.payment_failed of intent i. *)
WebhookFailed(s, i) ==
  LET r == [NewReq("webhook", NULL) EXCEPT
              !.oid = stripe.intents[i].orderId, !.data = IntentNames[i]]
  IN
  /\ CanStart(s)
  /\ i \in DOMAIN stripe.intents
  /\ orders' = [orders EXCEPT ![r.oid].paymentStatus = "failed"]
  /\ Respond(s, [r EXCEPT !.wrote = 1], 200, "received")
  /\ UNCHANGED <<restaurants, menuItems, addresses, riders, tracking,
                 published, now, stripe, reviews>>

(* POST /payments/refund (admin only) *)
RefundStart(s, u, id) ==
  LET r == [NewReq("refund", u) EXCEPT !.oid = id]
      found == Exists(id)
      order == orders[id]
      seen == IF found THEN [r EXCEPT !.found = TRUE, !.snap = order] ELSE r
  IN
  /\ CanStart(s)
  /\ Role(u) = "admin"
  /\ IF ~found THEN Respond(s, seen, 404, "Order not found")
     ELSE IF order.paymentId = NULL
     THEN Respond(s, seen, 400, "No payment found for this order")
     ELSE IF order.paymentStatus # "completed"
     THEN Respond(s, seen, 400, "Order payment is not completed")
     ELSE reqs' = [reqs EXCEPT ![s] = [seen EXCEPT !.pc = "refund"]]
  /\ UNCHANGED <<restaurants, menuItems, addresses, riders, orders, tracking,
                 published, now, stripe, reviews>>

(* stripe.refunds.create, for the full amount: the processor rejects a    *)
(* refund of an intent that is not paid or is already refunded.           *)
RefundStripe(s) ==
  LET r == reqs[s]
      pi == r.snap.paymentId
      refundable ==
        /\ \E i \in IntentIndex(pi) : stripe.intents[i].status = "succeeded"
        /\ \A k \in DOMAIN stripe.refunds : stripe.refunds[k].intent # pi
  IN
  /\ r.op = "refund" /\ r.pc = "refund"
  /\ IF refundable
     THEN /\ stripe' = [stripe EXCEPT !.refunds =
                          Append(@, [intent |-> pi, orderId |-> r.oid])]
          /\ reqs' = [reqs EXCEPT ![s].pc = "update"]
     ELSE /\ Respond(s, r, 500, "Internal server error")
          /\ UNCHANGED stripe
  /\ UNCHANGED <<restaurants, menuItems, addresses, riders, orders, tracking,
                 published, now, reviews>>

RefundWrite(s) ==
  LET r == reqs[s] IN
  /\ r.op = "refund" /\ r.pc = "update"
  /\ CanRecordPayment
  /\ orders' = [orders EXCEPT ![r.oid].paymentStatus = "refunded"]
  /\ reqs' = [reqs EXCEPT ![s].pc = "createTracking", ![s].wrote = @ + 1]
  /\ UNCHANGED <<restaurants, menuItems, addresses, riders, tracking,
                 published, now, stripe, reviews>>

RefundTrack(s) ==
  LET r == reqs[s] IN
  /\ r.op = "refund" /\ r.pc = "createTracking"
  /\ tracking' = Append(tracking,
                    TrackingRow(r.oid, r.snap.status, "Refund processed"))
  /\ Respond(s, [r EXCEPT !.wrote = @ + 1], 200,
             "Refund processed successfully")
  /\ UNCHANGED <<restaurants, menuItems, addresses, riders, orders,
                 published, now, stripe, reviews>>

PaymentStep(s) ==
  \/ CreateIntentStripe(s)
  \/ CreateIntentWrite(s)
  \/ ConfirmPaymentRetrieve(s)
  \/ ConfirmPaymentWrite(s)
  \/ ConfirmPaymentTrack(s)
  \/ WebhookTrack(s)
  \/ RefundStripe(s)
  \/ RefundWrite(s)
  \/ RefundTrack(s)

(***************************************************************************)
(* The catalog: PUT /menu/:id and PUT /restaurants/:id by the owner; of    *)
(* the body, the price and the delivery fee are modelled.                  *)
(***************************************************************************)
UpdateMenuItemStart(s, u, m, price) ==
  LET r == [NewReq("updateMenuItem", u) EXCEPT !.target = m, !.data = price]
  IN
  /\ CanStart(s)
  /\ Role(u) = "restaurant"
  /\ IF m \notin DOMAIN menuItems
     THEN Respond(s, r, 404, "Menu item not found")
     ELSE IF restaurants[menuItems[m].restaurantId].userId # u
     THEN Respond(s, r, 403, "Not authorized to update this menu item")
     ELSE reqs' = [reqs EXCEPT ![s] = [r EXCEPT !.pc = "update"]]
  /\ UNCHANGED <<restaurants, menuItems, addresses, riders, orders, tracking,
                 published, now, stripe, reviews>>

(* Variant: the new price is also written to the order lines of the item. *)
UpdateMenuItemWrite_Repricing(s) ==
  LET r == reqs[s] IN
  /\ r.op = "updateMenuItem" /\ r.pc = "update"
  /\ menuItems' = [menuItems EXCEPT ![r.target].price = r.data]
  /\ orders' = [o \in DOMAIN orders |->
                  [orders[o] EXCEPT !.items =
                     [i \in DOMAIN @ |->
                        IF @[i].menuItemId = r.target
                        THEN [@[i] EXCEPT !.price = r.data] ELSE @[i]]]]
  /\ Respond(s, [r EXCEPT !.wrote = @ + 1], 200,
             "Menu item updated successfully")
  /\ UNCHANGED <<restaurants, addresses, riders, tracking, published, now,
                 stripe, reviews>>

UpdateMenuItemWrite(s) ==
  LET r == reqs[s] IN
  /\ r.op = "updateMenuItem" /\ r.pc = "update"
  /\ menuItems' = [menuItems EXCEPT ![r.target].price = r.data]
  /\ Respond(s, [r EXCEPT !.wrote = @ + 1], 200,
             "Menu item updated successfully")
  /\ UNCHANGED <<restaurants, addresses, riders, orders, tracking, published,
                 now, stripe, reviews>>

UpdateRestaurantStart(s, u, rest, fee) ==
  LET r == [NewReq("updateRestaurant", u) EXCEPT
              !.target = rest, !.data = fee]
  IN
  /\ CanStart(s)
  /\ Role(u) = "restaurant"
  /\ IF rest \notin DOMAIN restaurants
     THEN Respond(s, r, 404, "Restaurant not found")
     ELSE IF restaurants[rest].userId # u
     THEN Respond(s, r, 403, "Not authorized to update this restaurant")
     ELSE reqs' = [reqs EXCEPT ![s] = [r EXCEPT !.pc = "update"]]
  /\ UNCHANGED <<restaurants, menuItems, addresses, riders, orders, tracking,
                 published, now, stripe, reviews>>

UpdateRestaurantWrite(s) ==
  LET r == reqs[s] IN
  /\ r.op = "updateRestaurant" /\ r.pc = "update"
  /\ restaurants' = [restaurants EXCEPT ![r.target].deliveryFee = r.data]
  /\ Respond(s, [r EXCEPT !.wrote = @ + 1], 200,
             "Restaurant updated successfully")
  /\ UNCHANGED <<menuItems, addresses, riders, orders, tracking, published,
                 now, stripe, reviews>>

CatalogStep(s) == UpdateMenuItemWrite(s) \/ UpdateRestaurantWrite(s)

(***************************************************************************)
(* Failures.  Each handler is one try block whose catch answers 500; the   *)
(* writes are separate statements outside any transaction, and the emits   *)
(* follow the tracking write inside the same try block.                    *)
(***************************************************************************)
LifecycleOps == {"createOrder", "updateOrderStatus", "cancelOrder",
                 "acceptOrder"}

(* The status label of the tracking row each operation appends. *)
TrackingLabel(r) ==
  CASE r.op = "createOrder" -> "pending"
    [] r.op = "updateOrderStatus" -> r.target
    [] r.op = "cancelOrder" -> "cancelled"
    [] r.op = "acceptOrder" -> "ready"

(* prisma.orderTracking.create rejects: nothing is appended. *)
TrackingWriteFails(s) ==
  LET r == reqs[s] IN
  /\ r.op \in LifecycleOps /\ r.pc = "createTracking"
  /\ Respond(s, r, 500, "Internal server error")
  /\ UNCHANGED <<restaurants, menuItems, addresses, riders, orders, tracking,
                 published, now, stripe, reviews>>

(* The tracking row is appended, then the first emit throws. *)
PublishFails(s) ==
  LET r == reqs[s] IN
  /\ r.op \in LifecycleOps /\ r.pc = "createTracking"
  /\ tracking' = Append(tracking, TrackingRow(r.oid, TrackingLabel(r), NULL))
  /\ Respond(s, [r EXCEPT !.wrote = @ + 1], 500, "Internal server error")
  /\ UNCHANGED <<restaurants, menuItems, addresses, riders, orders,
                 published, now, stripe, reviews>>

(***************************************************************************)
(* GET /riders/available-orders : listAvailableOrdersForRider.             *)
(* The haversine distance is taken between points of one meridian, where   *)
(* it is R * |dLat| * pi / 180; pi is 22/7 and both sides of               *)
(* distance <= maxRadius are scaled to whole numbers.                      *)
(***************************************************************************)
EarthRadiusKm == 6371
DefaultRadiusKm == 10
PageSize == 20

Abs(x) == IF x < 0 THEN 0 - x ELSE x

(* distance <= maxRadius, for latitudes in hundredths of a degree. *)
WithinRadius(riderLat, restaurantLat, radius) ==
  EarthRadiusKm * 22 * Abs(restaurantLat - riderLat)
    <= radius * 7 * 180 * 100

(* The callback of orders.filter (riders.js 306-322). *)
KeptByDistance(q, restaurant) ==
  IF ~Truthy(restaurant.latitude) \/ ~Truthy(restaurant.longitude)
  THEN TRUE
  ELSE WithinRadius(q.latitude, restaurant.latitude, q.radius)

(* where: { status: 'ready', riderId: null } *)
ReadyUnassigned ==
  {o \in DOMAIN orders :
     orders[o].status = "ready" /\ orders[o].riderId = NULL}

(* orderBy: { readyAt: 'asc' }: every order of the rows that is ascending *)
(* (rows of equal readyAt come in any order).                             *)
RECURSIVE OrderedByReadyAt(_)
OrderedByReadyAt(ids) ==
  IF ids = {} THEN {<<>>}
  ELSE UNION {{<<o>> \o q : q \in OrderedByReadyAt(ids \ {o})} :
              o \in {o \in ids :
                       \A p \in ids : orders[o].readyAt <= orders[p].readyAt}}

(* Variant: the whole result of the query, without take. *)
Take_All(q, n) == q

(* take: n *)
Take(q, n) == SubSeq(q, 1, IF Len(q) < n THEN Len(q) ELSE n)

(* A query value is a string: any value that is present is truthy. *)
Supplied(x) == x # NONE

ListAvailableStart(s, u, latitude, longitude, radius) ==
  LET r == [NewReq("listAvailableOrders", u) EXCEPT
              !.data = [latitude |-> latitude, longitude |-> longitude,
                        radius |-> radius]]
  IN
  /\ CanStart(s)
  /\ Role(u) = "rider"
  /\ IF RiderOf(u) = {}
     THEN Respond(s, r, 404, "Rider profile not found")
     ELSE LET p == CHOOSE p \in RiderOf(u) : TRUE IN
          IF ~riders[p].isAvailable
          THEN Respond(s, r, 400, "Rider is not available")
          ELSE reqs' = [reqs EXCEPT ![s] =
                          [r EXCEPT !.pc = "findOrders", !.rider = p]]
  /\ UNCHANGED <<restaurants, menuItems, addresses, riders, orders, tracking,
                 published, now, stripe, reviews>>

ListAvailableFindOrders(s) ==
  LET r == reqs[s] IN
  /\ r.op = "listAvailableOrders" /\ r.pc = "findOrders"
  /\ \E q \in OrderedByReadyAt(ReadyUnassigned) :
       LET found == Take(q, PageSize)
           filteredOrders ==
             IF Supplied(r.data.latitude) /\ Supplied(r.data.longitude)
             THEN SelectSeq(found,
                    LAMBDA o : KeptByDistance(
                                 r.data, restaurants[orders[o].restaurantId]))
             ELSE found
       IN Respond(s, [r EXCEPT !.result = filteredOrders], 200, NULL)
  /\ UNCHANGED <<restaurants, menuItems, addresses, riders, orders, tracking,
                 published, now, stripe, reviews>>

(***************************************************************************)
(* /addresses : the customer's address book.  schemas.address is checked   *)
(* but req.body is passed on as sent: isDefault is true, false or absent.  *)
(***************************************************************************)
AddressNames == <<"a1", "a2", "a3", "a4", "a5">>

IsDefaultBodies == {"true", "false", "absent"}

(* The ids a new row can get: an id nobody holds. *)
FreshAddressIds ==
  {AddressNames[i] : i \in 1..MaxAddresses}
    \ (DOMAIN addresses
         \cup {reqs[s].addr : s \in Slots}
         \cup {reqs[s].target : s \in Slots}
         \cup {orders[o].addressId : o \in DOMAIN orders})

AddressesOf(u) == {a \in DOMAIN addresses : addresses[a].userId = u}

(* updateMany({ where: { userId, id: { not: id } }, data: { isDefault: false } }) *)
UnsetDefaults(u, except) ==
  [a \in DOMAIN addresses |->
     IF addresses[a].userId = u /\ a # except
     THEN [addresses[a] EXCEPT !.isDefault = FALSE]
     ELSE addresses[a]]

(* POST /addresses.  The first query is the updateMany when the body asks *)
(* for the default, and the count otherwise.                              *)
CreateAddressStart(s, u, isDefault) ==
  LET r == [NewReq("createAddress", u) EXCEPT !.data = isDefault] IN
  /\ CanStart(s)
  /\ Role(u) = "customer"
  /\ IF isDefault = "true"
     THEN /\ addresses' = UnsetDefaults(u, NULL)
          /\ reqs' = [reqs EXCEPT ![s] = [r EXCEPT !.pc = "count"]]
     ELSE /\ addresses' = addresses
          /\ reqs' = [reqs EXCEPT ![s] =
               [r EXCEPT !.pc = "createAddress",
                         !.data = IF AddressesOf(u) = {} THEN "true" ELSE @]]
  /\ UNCHANGED <<restaurants, menuItems, riders, orders, tracking, published,
                 now, stripe, reviews>>

CreateAddressCount(s) ==
  LET r == reqs[s] IN
  /\ r.op = "createAddress" /\ r.pc = "count"
  /\ reqs' = [reqs EXCEPT ![s].pc = "createAddress",
                          ![s].data = IF AddressesOf(r.user) = {} THEN "true"
                                      ELSE @]
  /\ UNCHANGED <<restaurants, menuItems, addresses, riders, orders, tracking,
                 published, now, stripe, reviews>>

CreateAddressInsert(s) ==
  LET r == reqs[s] IN
  /\ r.op = "createAddress" /\ r.pc = "createAddress"
  /\ FreshAddressIds # {}
  /\ LET id == CHOOSE a \in FreshAddressIds : TRUE
         row == [userId |-> r.user, isDefault |-> (r.data = "true"),
                 createdAt |-> now]
     IN /\ addresses' = [a \in DOMAIN addresses \cup {id} |->
                           IF a = id THEN row ELSE addresses[a]]
        /\ Respond(s, [r EXCEPT !.addr = id, !.wrote = @ + 1], 201,
                   "Address created successfully")
  /\ UNCHANGED <<restaurants, menuItems, riders, orders, tracking, published,
                 now, stripe, reviews>>

(* findUnique and the two checks every route on /addresses/:id starts    *)
(* with; next is the position the handler goes on from.                   *)
FindOwnAddress(s, op, u, id, isDefault, denied, next) ==
  LET r == [NewReq(op, u) EXCEPT !.addr = id, !.data = isDefault] IN
  /\ CanStart(s)
  /\ Role(u) = "customer"
  /\ IF id \notin DOMAIN addresses
     THEN Respond(s, r, 404, "Address not found")
     ELSE LET seen == [r EXCEPT !.found = TRUE, !.snap = addresses[id]] IN
          IF addresses[id].userId # u
          THEN Respond(s, seen, 403, denied)
          ELSE reqs' = [reqs EXCEPT ![s] = [seen EXCEPT !.pc = next]]
  /\ UNCHANGED <<restaurants, menuItems, addresses, riders, orders, tracking,
                 published, now, stripe, reviews>>

(* PUT /addresses/:id *)
UpdateAddressStart(s, u, id, isDefault) ==
  FindOwnAddress(s, "updateAddress", u, id, isDefault,
                 "Not authorized to update this address",
                 IF id \in DOMAIN addresses /\ isDefault = "true"
                      /\ ~addresses[id].isDefault
                 THEN "unsetOthers" ELSE "update")

UpdateAddressUnsetOthers(s) ==
  LET r == reqs[s] IN
  /\ r.op = "updateAddress" /\ r.pc = "unsetOthers"
  /\ addresses' = UnsetDefaults(r.user, r.addr)
  /\ reqs' = [reqs EXCEPT ![s].pc = "update"]
  /\ UNCHANGED <<restaurants, menuItems, riders, orders, tracking, published,
                 now, stripe, reviews>>

(* address.update({ where: { id }, data: req.body }); a row that is gone  *)
(* makes the update throw.                                                *)
UpdateAddressWrite(s) ==
  LET r == reqs[s] IN
  /\ r.op = "updateAddress" /\ r.pc = "update"
  /\ IF r.addr \notin DOMAIN addresses
     THEN /\ Respond(s, r, 500, "Internal server error")
          /\ addresses' = addresses
     ELSE /\ addresses' = [addresses EXCEPT ![r.addr].isDefault =
                             IF r.data = "absent" THEN @ ELSE r.data = "true"]
          /\ Respond(s, [r EXCEPT !.wrote = @ + 1], 200,
                     "Address updated successfully")
  /\ UNCHANGED <<restaurants, menuItems, riders, orders, tracking, published,
                 now, stripe, reviews>>

(* PATCH /addresses/:id/set-default *)
SetDefaultStart(s, u, id) ==
  FindOwnAddress(s, "setDefaultAddress", u, id, NULL,
                 "Not authorized to update this address", "unsetAll")

SetDefaultUnsetAll(s) ==
  LET r == reqs[s] IN
  /\ r.op = "setDefaultAddress" /\ r.pc = "unsetAll"
  /\ addresses' = UnsetDefaults(r.user, NULL)
  /\ reqs' = [reqs EXCEPT ![s].pc = "update"]
  /\ UNCHANGED <<restaurants, menuItems, riders, orders, tracking, published,
                 now, stripe, reviews>>

SetDefaultWrite(s) ==
  LET r == reqs[s] IN
  /\ r.op = "setDefaultAddress" /\ r.pc = "update"
  /\ IF r.addr \notin DOMAIN addresses
     THEN /\ Respond(s, r, 500, "Internal server error")
          /\ addresses' = addresses
     ELSE /\ addresses' = [addresses EXCEPT ![r.addr].isDefault = TRUE]
          /\ Respond(s, [r EXCEPT !.wrote = @ + 1], 200,
                     "Default address updated successfully")
  /\ UNCHANGED <<restaurants, menuItems, riders, orders, tracking, published,
                 now, stripe, reviews>>

(* DELETE /addresses/:id *)
ActiveStatuses == {"pending", "confirmed", "preparing", "ready", "picked_up"}

DeleteAddressStart(s, u, id) ==
  FindOwnAddress(s, "deleteAddress", u, id, NULL,
                 "Not authorized to delete this address", "countOrders")

UsedInActiveOrders(id) ==
  {o \in DOMAIN orders :
     orders[o].addressId = id /\ orders[o].status \in ActiveStatuses}

DeleteAddressCountOrders(s) ==
  LET r == reqs[s] IN
  /\ r.op = "deleteAddress" /\ r.pc = "countOrders"
  /\ IF Cardinality(UsedInActiveOrders(r.addr)) > 0
     THEN Respond(s, r, 400,
            "Cannot delete address that is being used in active orders")
     ELSE reqs' = [reqs EXCEPT ![s].pc = "delete"]
  /\ UNCHANGED <<restaurants, menuItems, addresses, riders, orders, tracking,
                 published, now, stripe, reviews>>

DeleteAddressRow(s) ==
  LET r == reqs[s] IN
  /\ r.op = "deleteAddress" /\ r.pc = "delete"
  /\ IF \/ r.addr \notin DOMAIN addresses
        \/ /\ StoreChecksReferences
           /\ \E o \in DOMAIN orders : orders[o].addressId = r.addr
     THEN /\ Respond(s, r, 500, "Internal server error")
          /\ addresses' = addresses
     ELSE /\ addresses' = [a \in DOMAIN addresses \ {r.addr} |-> addresses[a]]
          /\ IF r.snap.isDefault
             THEN reqs' = [reqs EXCEPT ![s].pc = "findNext",
                                       ![s].wrote = @ + 1]
             ELSE Respond(s, [r EXCEPT !.wrote = @ + 1], 200,
                          "Address deleted successfully")
  /\ UNCHANGED <<restaurants, menuItems, riders, orders, tracking, published,
                 now, stripe, reviews>>

(* findFirst({ where: { userId }, orderBy: { createdAt: 'desc' } }) *)
DeleteAddressFindNext(s) ==
  LET r == reqs[s]
      newest == {a \in AddressesOf(r.user) :
                   \A b \in AddressesOf(r.user) :
                     addresses[a].createdAt >= addresses[b].createdAt}
  IN
  /\ r.op = "deleteAddress" /\ r.pc = "findNext"
  /\ IF newest = {}
     THEN Respond(s, r, 200, "Address deleted successfully")
     ELSE \E nextAddress \in newest :
            reqs' = [reqs EXCEPT ![s].pc = "promote",
                                 ![s].target = nextAddress]
  /\ UNCHANGED <<restaurants, menuItems, addresses, riders, orders, tracking,
                 published, now, stripe, reviews>>

DeleteAddressPromote(s) ==
  LET r == reqs[s] IN
  /\ r.op = "deleteAddress" /\ r.pc = "promote"
  /\ IF r.target \notin DOMAIN addresses
     THEN /\ Respond(s, r, 500, "Internal server error")
          /\ addresses' = addresses
     ELSE /\ addresses' = [addresses EXCEPT ![r.target].isDefault = TRUE]
          /\ Respond(s, [r EXCEPT !.wrote = @ + 1], 200,
                     "Address deleted successfully")
  /\ UNCHANGED <<restaurants, menuItems, riders, orders, tracking, published,
                 now, stripe, reviews>>

AddressStep(s) ==
  \/ CreateAddressCount(s)
  \/ CreateAddressInsert(s)
  \/ UpdateAddressUnsetOthers(s)
  \/ UpdateAddressWrite(s)
  \/ SetDefaultUnsetAll(s)
  \/ SetDefaultWrite(s)
  \/ DeleteAddressCountOrders(s)
  \/ DeleteAddressRow(s)
  \/ DeleteAddressFindNext(s)
  \/ DeleteAddressPromote(s)

(***************************************************************************)
(* POST /reviews : create review (customer only).  A rating is kept in     *)
(* tenths, as Math.round(avg * 10) / 10 leaves it.                         *)
(***************************************************************************)
NoOrderId == 0

RECURSIVE SumRatings(_, _)
SumRatings(rows, i) ==
  IF i > Len(rows) THEN 0 ELSE rows[i].rating + SumRatings(rows, i + 1)

ReviewsOfRestaurant(rest) ==
  SelectSeq(reviews, LAMBDA v : v.restaurantId = rest)

(* findFirst({ where: { customerId, restaurantId, orderId } }) *)
ExistingReview(u, rest, id) ==
  \E k \in DOMAIN reviews :
    /\ reviews[k].customerId = u
    /\ reviews[k].restaurantId = rest
    /\ reviews[k].orderId = id

CreateReviewStart(s, u, rest, id, rating) ==
  LET r == [NewReq("createReview", u) EXCEPT
              !.rest = rest, !.oid = id, !.data = rating]
  IN
  /\ CanStart(s)
  /\ Role(u) = "customer"
  /\ IF rest \notin DOMAIN restaurants
     THEN Respond(s, r, 404, "Restaurant not found")
     ELSE reqs' = [reqs EXCEPT ![s] =
            [r EXCEPT !.pc = IF id # NoOrderId THEN "findOrder"
                             ELSE "findDelivered"]]
  /\ UNCHANGED <<restaurants, menuItems, addresses, riders, orders, tracking,
                 published, now, stripe, reviews>>

(* The checks on the order the review names (part_004 145-172). *)
ReviewRejection(found, u, rest, order) ==
  IF ~found THEN <<404, "Order not found">>
  ELSE IF order.customerId # u
  THEN <<403, "Not authorized to review this order">>
  ELSE IF order.restaurantId # rest
  THEN <<400, "Order does not belong to this restaurant">>
  ELSE IF order.status # "delivered"
  THEN <<400, "Can only review delivered orders">>
  ELSE <<200, NULL>>

CreateReviewFindOrder(s) ==
  LET r == reqs[s]
      found == Exists(r.oid)
      seen == IF found THEN [r EXCEPT !.found = TRUE, !.snap = orders[r.oid]]
              ELSE r
      verdict == ReviewRejection(found, r.user, r.rest,
                                 IF found THEN orders[r.oid] ELSE NULL)
  IN
  /\ r.op = "createReview" /\ r.pc = "findOrder"
  /\ IF verdict[1] # 200
     THEN Respond(s, seen, verdict[1], verdict[2])
     ELSE reqs' = [reqs EXCEPT ![s] = [seen EXCEPT !.pc = "findReview"]]
  /\ UNCHANGED <<restaurants, menuItems, addresses, riders, orders, tracking,
                 published, now, stripe, reviews>>

CreateReviewFindReview(s) ==
  LET r == reqs[s] IN
  /\ r.op = "createReview" /\ r.pc = "findReview"
  /\ IF ExistingReview(r.user, r.rest, r.oid)
     THEN Respond(s, r, 400, "Review already exists for this order")
     ELSE reqs' = [reqs EXCEPT ![s].pc = "createReview"]
  /\ UNCHANGED <<restaurants, menuItems, addresses, riders, orders, tracking,
                 published, now, stripe, reviews>>

(* Without an order id: the customer has a delivered order there. *)
CreateReviewFindDelivered(s) ==
  LET r == reqs[s]
      hasOrdered == \E o \in DOMAIN orders :
                      /\ orders[o].customerId = r.user
                      /\ orders[o].restaurantId = r.rest
                      /\ orders[o].status = "delivered"
  IN
  /\ r.op = "createReview" /\ r.pc = "findDelivered"
  /\ IF ~hasOrdered
     THEN Respond(s, r, 400,
                  "You can only review restaurants you have ordered from")
     ELSE reqs' = [reqs EXCEPT ![s].pc = "createReview"]
  /\ UNCHANGED <<restaurants, menuItems, addresses, riders, orders, tracking,
                 published, now, stripe, reviews>>

(* prisma.review.create.  Whether the review table refuses a second row   *)
(* for the same order is decided by the table's declaration: the create   *)
(* of such a row either stores it or throws.                              *)
CreateReviewInsert(s) ==
  LET r == reqs[s]
      row == [customerId |-> r.user, restaurantId |-> r.rest,
              orderId |-> r.oid, rating |-> r.data,
              isVerified |-> r.oid # NoOrderId]
      repeated == /\ r.oid # NoOrderId
                  /\ \E k \in DOMAIN reviews : reviews[k].orderId = r.oid
  IN
  /\ r.op = "createReview" /\ r.pc = "createReview"
  /\ Len(reviews) < MaxReviews
  /\ \/ /\ reviews' = Append(reviews, row)
        /\ reqs' = [reqs EXCEPT ![s].pc = "aggregate", ![s].wrote = @ + 1]
     \/ /\ repeated
        /\ reviews' = reviews
        /\ Respond(s, r, 500, "Internal server error")
  /\ UNCHANGED <<restaurants, menuItems, addresses, riders, orders, tracking,
                 published, now, stripe>>

(* prisma.review.aggregate({ where: { restaurantId }, _avg, _count }) *)
CreateReviewAggregate(s) ==
  LET r == reqs[s]
      rows == ReviewsOfRestaurant(r.rest)
  IN
  /\ r.op = "createReview" /\ r.pc = "aggregate"
  /\ reqs' = [reqs EXCEPT ![s].pc = "updateRestaurant",
                          ![s].result = <<SumRatings(rows, 1), Len(rows)>>]
  /\ UNCHANGED <<restaurants, menuItems, addresses, riders, orders, tracking,
                 published, now, stripe, reviews>>

CreateReviewUpdateRestaurant(s) ==
  LET r == reqs[s] IN
  /\ r.op = "createReview" /\ r.pc = "updateRestaurant"
  /\ restaurants' = [restaurants EXCEPT
       ![r.rest].rating = MathRound(r.result[1] * 10, r.result[2]),
       ![r.rest].totalReviews = r.result[2]]
  /\ Respond(s, [r EXCEPT !.wrote = @ + 1], 201,
             "Review created successfully")
  /\ UNCHANGED <<menuItems, addresses, riders, orders, tracking, published,
                 now, stripe, reviews>>

ReviewStep(s) ==
  \/ CreateReviewFindOrder(s)
  \/ CreateReviewFindReview(s)
  \/ CreateReviewFindDelivered(s)
  \/ CreateReviewInsert(s)
  \/ CreateReviewAggregate(s)
  \/ CreateReviewUpdateRestaurant(s)

(***************************************************************************)
(* The reads of an order: GET /riders/orders, GET /orders/:id and          *)
(* GET /orders/:id/tracking.                                               *)
(***************************************************************************)
DefaultLimit == 10

(* where: { orderId: id }, orderBy: { timestamp: 'asc' } *)
TrackingOf(o) == SelectSeq(tracking, LAMBDA e : e.orderId = o)

(* orderBy: { createdAt: 'desc' } *)
RECURSIVE OrderedByCreatedAtDesc(_)
OrderedByCreatedAtDesc(ids) ==
  IF ids = {} THEN {<<>>}
  ELSE UNION {{<<o>> \o q : q \in OrderedByCreatedAtDesc(ids \ {o})} :
              o \in {o \in ids :
                       \A p \in ids :
                         orders[o].createdAt >= orders[p].createdAt}}

(* where = { riderId: req.user.id } *)
RiderOrdersWhere(u) == {o \in DOMAIN orders : orders[o].riderId = u}

(* GET /riders/orders, first page of the default size, no status filter. *)
GetRiderOrders(s, u) ==
  LET r == NewReq("getRiderOrders", u) IN
  /\ CanStart(s)
  /\ Role(u) = "rider"
  /\ \E q \in OrderedByCreatedAtDesc(RiderOrdersWhere(u)) :
       Respond(s, [r EXCEPT !.result = Take(q, DefaultLimit)], 200, NULL)
  /\ UNCHANGED <<restaurants, menuItems, addresses, riders, orders, tracking,
                 published, now, stripe, reviews>>

(* The authorization check of GET /orders/:id (orders.js 342-345): the    *)
(* included restaurant is selected without its userId, so the comparison  *)
(* of the restaurant branch reads undefined.                              *)
MayView(u, order) ==
  \/ Role(u) = "customer" /\ order.customerId = u
  \/ Role(u) = "rider" /\ order.riderId = u
  \/ Role(u) = "admin"

(* The authorization check of GET /orders/:id/tracking (597-600). *)
MayViewTracking(u, order) ==
  \/ Role(u) = "customer" /\ order.customerId = u
  \/ Role(u) = "restaurant" /\ restaurants[order.restaurantId].userId = u
  \/ Role(u) = "rider" /\ order.riderId = u
  \/ Role(u) = "admin"

GetOrder(s, u, id) ==
  LET r == [NewReq("getOrder", u) EXCEPT !.oid = id] IN
  /\ CanStart(s)
  /\ IF ~Exists(id)
     THEN Respond(s, r, 404, "Order not found")
     ELSE LET seen == [r EXCEPT !.found = TRUE, !.snap = orders[id]] IN
          IF ~MayView(u, orders[id])
          THEN Respond(s, seen, 403, "Not authorized to view this order")
          ELSE Respond(s, [seen EXCEPT !.result = TrackingOf(id)], 200, NULL)
  /\ UNCHANGED <<restaurants, menuItems, addresses, riders, orders, tracking,
                 published, now, stripe, reviews>>

GetOrderTrackingStart(s, u, id) ==
  LET r == [NewReq("getOrderTracking", u) EXCEPT !.oid = id] IN
  /\ CanStart(s)
  /\ IF ~Exists(id)
     THEN Respond(s, r, 404, "Order not found")
     ELSE LET seen == [r EXCEPT !.found = TRUE, !.snap = orders[id]] IN
          IF ~MayViewTracking(u, orders[id])
          THEN Respond(s, seen, 403,
                       "Not authorized to view this order tracking")
          ELSE reqs' = [reqs EXCEPT ![s] = [seen EXCEPT !.pc = "findTracking"]]
  /\ UNCHANGED <<restaurants, menuItems, addresses, riders, orders, tracking,
                 published, now, stripe, reviews>>

GetOrderTrackingFind(s) ==
  LET r == reqs[s] IN
  /\ r.op = "getOrderTracking" /\ r.pc = "findTracking"
  /\ Respond(s, [r EXCEPT !.result = TrackingOf(r.oid)], 200, NULL)
  /\ UNCHANGED <<restaurants, menuItems, addresses, riders, orders, tracking,
                 published, now, stripe, reviews>>

Item(m, q) == [menuItemId |-> m, quantity |-> q]

(***************************************************************************)
(* The requests a specification lets arrive: the slots that serve them,    *)
(* and the inputs of each route.                                           *)
(***************************************************************************)
Requests(slots, creates, statusRequests, cancellers, accepters) ==
  \E s \in slots :
    \/ \E c \in creates : CreateOrderStart(s, c[1], c[2], c[3], c[4])
    \/ CreateOrderStep(s)
    \/ \E q \in statusRequests, id \in OrderIds :
         UpdateStatusStart(s, q[1], id, q[2], NULL)
    \/ UpdateStatusStep(s)
    \/ \E u \in cancellers, id \in OrderIds : CancelStart(s, u, id, NULL)
    \/ CancelStep(s)
    \/ \E u \in accepters, id \in OrderIds : AcceptStart(s, u, id)
    \/ AcceptStep(s)
    \/ ResponseSent(s)

(* One order of two portions of m1, placed by c1 at rest1 for address a1. *)
LifecycleCreates == {<<"c1", "rest1", "a1", <<Item("m1", 2)>> >>}

(***************************************************************************)
(* Spec: the lifecycle of an order under requests served one at a time,    *)
(* with the clock.  The owner requests every target of the role, the       *)
(* administrator resets and completes orders, a rider claims and delivers. *)
(***************************************************************************)
LifecycleStatusRequests ==
  ({"ro1"} \X RestaurantTargets)
    \cup ({"ad"} \X {"pending", "delivered"})
    \cup ({"r1"} \X RiderTargets)

Next ==
  \/ Tick
  \/ Requests({1}, LifecycleCreates, LifecycleStatusRequests, Customers,
              {"r1"})

Spec == Init /\ [][Next]_vars

(***************************************************************************)
(* SpecAuth: every caller requests every target status (no clock).         *)
(***************************************************************************)
NextAuth ==
  Requests({1}, LifecycleCreates, Users \X StatusSet, {"c1"}, RiderUsers)

SpecAuth == Init /\ [][NextAuth]_vars

(***************************************************************************)
(* SpecRace: two requests are served at once; their database operations    *)
(* interleave in any order.  The owner marks the order ready, the customer *)
(* may cancel, both riders claim, a rider reports the pick-up.             *)
(***************************************************************************)
RaceStatusRequests == {<<"ro1", "ready">>, <<"r1", "picked_up">>}

NextRace ==
  Requests(Slots, LifecycleCreates, RaceStatusRequests, {"c1"}, RiderUsers)

SpecRace == Init /\ [][NextRace]_vars

(***************************************************************************)
(* SpecCreate: order placement alone, over every item list of one or two   *)
(* lines, for a restaurant whose fee and minimum are any of the values     *)
(* schemas.restaurant accepts (a number >= 0).                             *)
(***************************************************************************)
DeliveryFees == {0, 25, 40}
MinimumOrders == {0, 120, 200}
Quantities == {1, 2}

ItemLines == {Item(m, q) : m \in MenuItemIds, q \in Quantities}

ItemLists == {<<x>> : x \in ItemLines} \cup (ItemLines \X ItemLines)

(* Ids that name no row. *)
NoRestaurant == "rest0"
NoAddress == "a0"

PlacementCreates ==
  {"c1"} \X {"rest1", NoRestaurant} \X (AddressIds \cup {NoAddress})
         \X ItemLists

(* What the owner may have made of the restaurant: status and isOpen. *)
Standings == {<<"active", TRUE>>, <<"inactive", TRUE>>, <<"active", FALSE>>}

InitCreate ==
  /\ \E fee \in DeliveryFees, minimum \in MinimumOrders,
        standing \in Standings :
       restaurants = [SeedRestaurants EXCEPT
                        !["rest1"].deliveryFee = fee,
                        !["rest1"].minimumOrder = minimum,
                        !["rest1"].status = standing[1],
                        !["rest1"].isOpen = standing[2]]
  /\ \E available \in BOOLEAN :
       menuItems = [SeedMenuItems EXCEPT !["m2"].isAvailable = available]
  /\ addresses = SeedAddresses
  /\ riders = SeedRiders
  /\ orders = <<>>
  /\ tracking = <<>>
  /\ published = <<>>
  /\ now = 0
  /\ stripe = NoPayments
  /\ reviews = <<>>
  /\ reqs = [s \in Slots |-> Idle]

NextCreate ==
  \E s \in {1} :
    \/ \E c \in PlacementCreates :
         CreateOrderStart(s, c[1], c[2], c[3], c[4])
    \/ CreateOrderStep(s)
    \/ ResponseSent(s)

SpecCreate == InitCreate /\ [][NextCreate]_vars

(***************************************************************************)
(* SpecAccept: the riders' claims alone, two requests in flight, on a      *)
(* store that already holds two orders of customer c1, each placed, made   *)
(* ready by the restaurant, or made ready and claimed by rider profile     *)
(* rp2; rider user r1 has an available profile, an unavailable one, or     *)
(* none.  The log of notifications starts empty at this point.             *)
(***************************************************************************)
PlacedOrder ==
  LET items == OrderItems(<<Item("m1", 2)>>) IN
  NewOrder([NewReq("createOrder", "c1") EXCEPT
              !.rest = "rest1", !.addr = "a1",
              !.data = [items |-> items,
                        totals |-> calculateOrderTotals(
                                     items, SeedRestaurants["rest1"])]])

Stages == {"placed", "ready", "claimed"}

StagedOrder(stage) ==
  CASE stage = "placed" -> PlacedOrder
    [] stage = "ready" -> ApplyStatus(PlacedOrder, "ready", now, now)
    [] stage = "claimed" ->
         AssignRider(ApplyStatus(PlacedOrder, "ready", now, now), "rp2")

(* The tracking rows the operations behind a stage have appended. *)
StagedTracking(oid, stage) ==
  <<TrackingRow(oid, "pending", "Order placed successfully")>>
  \o (IF stage = "placed" THEN <<>>
      ELSE <<TrackingRow(oid, "ready", NULL)>>)
  \o (IF stage = "claimed"
      THEN <<TrackingRow(oid, "ready", <<"Order accepted by rider", "r2">>)>>
      ELSE <<>>)

RiderProfiles ==
  { SeedRiders,
    [SeedRiders EXCEPT !["rp1"].isAvailable = FALSE],
    [p \in {"rp2"} |-> SeedRiders[p]] }

(* The ids a rider may name: the two orders, and one that has no row. *)
AcceptOrderIds == 1..3

InitAccept ==
  /\ now = 0
  /\ stripe = NoPayments
  /\ reviews = <<>>
  /\ restaurants = SeedRestaurants
  /\ menuItems = SeedMenuItems
  /\ addresses = SeedAddresses
  /\ riders \in RiderProfiles
  /\ \E a, b \in Stages :
       /\ ~(a = "claimed" /\ b = "claimed")
       /\ orders = <<StagedOrder(a), StagedOrder(b)>>
       /\ tracking = StagedTracking(1, a) \o StagedTracking(2, b)
  /\ published = <<>>
  /\ reqs = [s \in Slots |-> Idle]

NextAccept ==
  \E s \in Slots :
    \/ \E u \in RiderUsers, id \in AcceptOrderIds : AcceptStart(s, u, id)
    \/ AcceptStep(s)
    \/ ResponseSent(s)

SpecAccept == InitAccept /\ [][NextAccept]_vars

(***************************************************************************)
(* SpecList: the riders' listing on the stores of SpecAccept, with the     *)
(* restaurant's location unrecorded, at its seeded place, or on the        *)
(* equator or the prime meridian; the rider asks from the restaurant's     *)
(* meridian, at 0, 9 or 20 km from the seeded place, or sends no location. *)
(***************************************************************************)
RestaurantLocations ==
  {<<NONE, NONE>>, <<SeedLatitude, SeedLongitude>>, <<SeedLatitude, 0>>,
   <<0, SeedLongitude>>}

RiderLatitudes == {NONE, SeedLatitude, SeedLatitude + 8, SeedLatitude + 18}

Radii == {DefaultRadiusKm, 5}

InitList ==
  /\ now = 0
  /\ stripe = NoPayments
  /\ reviews = <<>>
  /\ \E place \in RestaurantLocations :
       restaurants = [SeedRestaurants EXCEPT
                        !["rest1"].latitude = place[1],
                        !["rest1"].longitude = place[2]]
  /\ menuItems = SeedMenuItems
  /\ addresses = SeedAddresses
  /\ riders \in RiderProfiles
  /\ \E a, b \in Stages :
       /\ orders = <<StagedOrder(a), StagedOrder(b)>>
       /\ tracking = StagedTracking(1, a) \o StagedTracking(2, b)
  /\ published = <<>>
  /\ reqs = [s \in Slots |-> Idle]

(* The rider's longitude is the restaurant's, when that is recorded. *)
NextList ==
  \E s \in {1} :
    \/ \E u \in RiderUsers, latitude \in RiderLatitudes, radius \in Radii :
         LET meridian == restaurants["rest1"].longitude
             longitude == IF latitude = NONE THEN NONE
                          ELSE IF meridian = NONE THEN SeedLongitude
                          ELSE meridian
         IN ListAvailableStart(s, u, latitude, longitude, radius)
    \/ ListAvailableFindOrders(s)
    \/ ResponseSent(s)

SpecList == InitList /\ [][NextList]_vars

(***************************************************************************)
(* SpecPage: the riders' listing on a store that holds a backlog of ready, *)
(* unassigned orders of customer c1, up to more than one page of them.     *)
(* Order k was made ready at minute k, or the orders were made ready in    *)
(* the reverse of their placement, or the first two in the same minute.    *)
(* All orders are rest1's, or only the last placed one is and the others   *)
(* are rest2's; rest1 is at its seeded place, rest2 is 20 km to the north  *)
(* on the same meridian or has no recorded location.  The rider asks from  *)
(* rest1's place or sends no location.                                     *)
(***************************************************************************)
Backlogs == {1, PageSize - 1, PageSize, PageSize + 1, MaxBacklog}

Arrivals == {"inOrder", "reversed", "tied"}

Kitchens == {"one", "nearLast"}

FarPlaces == {<<SeedLatitude + 18, SeedLongitude>>, <<NONE, NONE>>}

ReadyMinute(k, n, arrival) ==
  CASE arrival = "inOrder" -> k
    [] arrival = "reversed" -> n + 1 - k
    [] arrival = "tied" -> IF k <= 2 THEN 1 ELSE k

(* Order k of a backlog of n: placed at minute 0 with one line of the     *)
(* restaurant's menu, made ready by the restaurant at its minute.         *)
BacklogOrder(k, n, arrival, kitchen) ==
  LET rest == IF kitchen = "one" \/ k = n THEN "rest1" ELSE "rest2"
      items == OrderItems(<<Item(IF rest = "rest1" THEN "m1" ELSE "m3", 2)>>)
      placed == NewOrder([NewReq("createOrder", "c1") EXCEPT
                            !.rest = rest, !.addr = "a1",
                            !.data = [items |-> items,
                                      totals |-> calculateOrderTotals(
                                                   items, restaurants[rest])]])
  IN ApplyStatus([placed EXCEPT !.createdAt = 0], "ready",
                 ReadyMinute(k, n, arrival), 0)

BacklogTracking(n, arrival) ==
  [i \in 1..(2 * n) |->
     IF i <= n
     THEN [TrackingRow(i, "pending", "Order placed successfully")
             EXCEPT !.timestamp = 0]
     ELSE [TrackingRow(i - n, "ready", NULL)
             EXCEPT !.timestamp = ReadyMinute(i - n, n, arrival)]]

InitPage ==
  /\ stripe = NoPayments
  /\ reviews = <<>>
  /\ \E far \in FarPlaces :
       restaurants = [SeedRestaurants EXCEPT
                        !["rest2"].latitude = far[1],
                        !["rest2"].longitude = far[2]]
  /\ menuItems = SeedMenuItems
  /\ addresses = SeedAddresses
  /\ riders = SeedRiders
  /\ \E n \in Backlogs, arrival \in Arrivals, kitchen \in Kitchens :
       /\ now = n + 1
       /\ orders = [k \in 1..n |-> BacklogOrder(k, n, arrival, kitchen)]
       /\ tracking = BacklogTracking(n, arrival)
  /\ published = <<>>
  /\ reqs = [s \in Slots |-> Idle]

NextPage ==
  \E s \in {1} :
    \/ \E u \in RiderUsers, radius \in Radii :
         \/ ListAvailableStart(s, u, NONE, NONE, radius)
         \/ ListAvailableStart(s, u, SeedLatitude, SeedLongitude, radius)
    \/ ListAvailableFindOrders(s)
    \/ ResponseSent(s)

SpecPage == InitPage /\ [][NextPage]_vars

(***************************************************************************)
(* SpecRead: the riders claim orders and every user reads them, one        *)
(* request at a time, on a store that holds two orders of customer c1,     *)
(* each placed or made ready and none claimed yet.                         *)
(***************************************************************************)
InitRead ==
  /\ now = 0
  /\ stripe = NoPayments
  /\ reviews = <<>>
  /\ restaurants = SeedRestaurants
  /\ menuItems = SeedMenuItems
  /\ addresses = SeedAddresses
  /\ riders = SeedRiders
  /\ \E a, b \in {"placed", "ready"} :
       /\ orders = <<StagedOrder(a), StagedOrder(b)>>
       /\ tracking = StagedTracking(1, a) \o StagedTracking(2, b)
  /\ published = <<>>
  /\ reqs = [s \in Slots |-> Idle]

NextRead ==
  \E s \in {1} :
    \/ \E u \in RiderUsers, id \in AcceptOrderIds : AcceptStart(s, u, id)
    \/ AcceptStep(s)
    \/ \E u \in RiderUsers : GetRiderOrders(s, u)
    \/ \E u \in Users, id \in AcceptOrderIds : GetOrder(s, u, id)
    \/ \E u \in Users, id \in AcceptOrderIds : GetOrderTrackingStart(s, u, id)
    \/ GetOrderTrackingFind(s)
    \/ ResponseSent(s)

SpecRead == InitRead /\ [][NextRead]_vars

(***************************************************************************)
(* SpecCancel: the customers cancel while the restaurant moves the order,  *)
(* two requests in flight, with the clock, on a store that holds one order *)
(* of customer c1, placed, confirmed or already in preparation.            *)
(***************************************************************************)
CancelStages == {"pending", "confirmed", "preparing"}

CancelOrderIds == 1..2

CancelStatusRequests == {<<"ro1", "confirmed">>, <<"ro1", "preparing">>}

InitCancel ==
  /\ now = 0
  /\ stripe = NoPayments
  /\ reviews = <<>>
  /\ restaurants = SeedRestaurants
  /\ menuItems = SeedMenuItems
  /\ addresses = SeedAddresses
  /\ riders = SeedRiders
  /\ \E stage \in CancelStages :
       /\ orders = <<ApplyStatus(PlacedOrder, stage, now, now)>>
       /\ tracking =
            <<TrackingRow(1, "pending", "Order placed successfully")>>
            \o (IF stage = "pending" THEN <<>>
                ELSE <<TrackingRow(1, stage, <<"Order", stage>>)>>)
  /\ published = <<>>
  /\ reqs = [s \in Slots |-> Idle]

NextCancel ==
  \/ Tick
  \/ \E s \in Slots :
       \/ \E u \in Customers, id \in CancelOrderIds :
            CancelStart(s, u, id, NULL)
       \/ CancelStep(s)
       \/ \E q \in CancelStatusRequests, id \in CancelOrderIds :
            UpdateStatusStart(s, q[1], id, q[2], NULL)
       \/ UpdateStatusStep(s)
       \/ ResponseSent(s)

SpecCancel == InitCancel /\ [][NextCancel]_vars

(***************************************************************************)
(* SpecAddress: customer c1 works on the address book, two requests in     *)
(* flight, and also names the address of c2.  The book of c1 starts empty, *)
(* with the seeded address, or with the seeded address and a second one    *)
(* that is not the default.                                                *)
(***************************************************************************)
AddressBooks ==
  { [a \in {"a2"} |-> SeedAddresses[a]],
    SeedAddresses,
    [a \in {"a1", "a2", "a3"} |->
       IF a = "a3"
       THEN [userId |-> "c1", isDefault |-> FALSE, createdAt |-> 0]
       ELSE SeedAddresses[a]] }

InitAddress ==
  /\ restaurants = SeedRestaurants
  /\ menuItems = SeedMenuItems
  /\ addresses \in AddressBooks
  /\ riders = SeedRiders
  /\ orders = <<>>
  /\ tracking = <<>>
  /\ published = <<>>
  /\ now = 0
  /\ stripe = NoPayments
  /\ reviews = <<>>
  /\ reqs = [s \in Slots |-> Idle]

AddressRequests(s, users, names) ==
  \/ \E u \in users, isDefault \in IsDefaultBodies :
       CreateAddressStart(s, u, isDefault)
  \/ \E u \in users, id \in names, isDefault \in IsDefaultBodies :
       UpdateAddressStart(s, u, id, isDefault)
  \/ \E u \in users, id \in names : SetDefaultStart(s, u, id)
  \/ \E u \in users, id \in names : DeleteAddressStart(s, u, id)
  \/ AddressStep(s)

NextAddress ==
  \E s \in Slots :
    \/ AddressRequests(s, {"c1"}, {AddressNames[i] : i \in 1..MaxAddresses})
    \/ ResponseSent(s)

SpecAddress == InitAddress /\ [][NextAddress]_vars

(***************************************************************************)
(* SpecDelete: customer c1 places an order for the seeded address and      *)
(* deletes addresses, two requests in flight; the administrator completes  *)
(* the order.  The book of c1 holds the seeded address, alone or with a    *)
(* second one.                                                             *)
(***************************************************************************)
DeleteStatusRequests == {<<"ad", "delivered">>}

InitDelete ==
  /\ restaurants = SeedRestaurants
  /\ menuItems = SeedMenuItems
  /\ addresses \in {book \in AddressBooks : "a1" \in DOMAIN book}
  /\ riders = SeedRiders
  /\ orders = <<>>
  /\ tracking = <<>>
  /\ published = <<>>
  /\ now = 0
  /\ stripe = NoPayments
  /\ reviews = <<>>
  /\ reqs = [s \in Slots |-> Idle]

NextDelete ==
  \E s \in Slots :
    \/ \E c \in LifecycleCreates : CreateOrderStart(s, c[1], c[2], c[3], c[4])
    \/ CreateOrderStep(s)
    \/ \E q \in DeleteStatusRequests, id \in OrderIds :
         UpdateStatusStart(s, q[1], id, q[2], NULL)
    \/ UpdateStatusStep(s)
    \/ \E id \in {"a1", "a3"} : DeleteAddressStart(s, "c1", id)
    \/ DeleteAddressCountOrders(s)
    \/ DeleteAddressRow(s)
    \/ DeleteAddressFindNext(s)
    \/ DeleteAddressPromote(s)
    \/ ResponseSent(s)

SpecDelete == InitDelete /\ [][NextDelete]_vars

(***************************************************************************)
(* SpecReview: customer c1 reviews rest1, two requests in flight, on a     *)
(* store that holds two orders of c1 at rest1: the first delivered, the    *)
(* second delivered or still only ready.  A review names the first order,  *)
(* the second, one that has no row, or none.                               *)
(***************************************************************************)
ReviewOrderIds == {NoOrderId, 1, 2, 3}

Ratings == {3, 4}

InitReview ==
  /\ now = 0
  /\ stripe = NoPayments
  /\ reviews = <<>>
  /\ restaurants = SeedRestaurants
  /\ menuItems = SeedMenuItems
  /\ addresses = SeedAddresses
  /\ riders = SeedRiders
  /\ \E second \in {"ready", "delivered"} :
       /\ orders = <<ApplyStatus(PlacedOrder, "delivered", now, now),
                     ApplyStatus(PlacedOrder, second, now, now)>>
       /\ tracking =
            <<TrackingRow(1, "pending", "Order placed successfully"),
              TrackingRow(1, "delivered", NULL),
              TrackingRow(2, "pending", "Order placed successfully"),
              TrackingRow(2, second, NULL)>>
  /\ published = <<>>
  /\ reqs = [s \in Slots |-> Idle]

NextReview ==
  \E s \in Slots :
    \/ \E u \in {"c1"}, rest \in {"rest1", "rest2", NoRestaurant},
          id \in ReviewOrderIds, rating \in Ratings :
         CreateReviewStart(s, u, rest, id, rating)
    \/ ReviewStep(s)
    \/ ResponseSent(s)

SpecReview == InitReview /\ [][NextReview]_vars

(***************************************************************************)
(* SpecFault: the lifecycle of one order, one request at a time, where the *)
(* tracking write or the publish may fail.                                 *)
(***************************************************************************)
FaultStatusRequests == {<<"ro1", "ready">>}

NextFault ==
  \/ Requests({1}, LifecycleCreates, FaultStatusRequests, {"c1"}, {"r1"})
  \/ \E s \in {1} : TrackingWriteFails(s)
  \/ \E s \in {1} : PublishFails(s)

SpecFault == Init /\ [][NextFault]_vars

(***************************************************************************)
(* SpecPay: the lifecycle of one order with its payment, one request at a  *)
(* time.                                                                   *)
(***************************************************************************)
PayStatusRequests == {<<"ro1", "ready">>, <<"ad", "delivered">>}

PaymentRequests(s) ==
  \/ \E id \in OrderIds : CreateIntentStart(s, "c1", id)
  \/ \E id \in OrderIds, i \in 1..MaxIntents :
       ConfirmPaymentStart(s, "c1", IntentNames[i], id)
  \/ \E i \in 1..MaxIntents : WebhookSucceeded(s, i)
  \/ \E i \in 1..MaxIntents : WebhookFailed(s, i)
  \/ \E id \in OrderIds : RefundStart(s, "ad", id)
  \/ PaymentStep(s)

NextPay ==
  \/ Requests({1}, LifecycleCreates, PayStatusRequests, {"c1"}, {"r1"})
  \/ \E i \in 1..MaxIntents : IntentSucceeds(i)
  \/ \E s \in {1} : PaymentRequests(s)

SpecPay == Init /\ [][NextPay]_vars

(***************************************************************************)
(* SpecFrame: everything that can happen to an order once it is placed:    *)
(* the store holds the order of customer c1, and status updates, the       *)
(* cancel, the claim, the payment operations and the owner's changes of    *)
(* the item's price and of the delivery fee arrive one at a time.          *)
(***************************************************************************)
NewPrices == {120}
NewDeliveryFees == {60}

InitFrame ==
  /\ now = 0
  /\ stripe = NoPayments
  /\ reviews = <<>>
  /\ restaurants = SeedRestaurants
  /\ menuItems = SeedMenuItems
  /\ addresses = SeedAddresses
  /\ riders = SeedRiders
  /\ orders = <<StagedOrder("placed")>>
  /\ tracking = StagedTracking(1, "placed")
  /\ published = <<>>
  /\ reqs = [s \in Slots |-> Idle]

NextFrame ==
  \/ \E i \in 1..MaxIntents : IntentSucceeds(i)
  \/ \E s \in {1} :
       \/ \E q \in PayStatusRequests, id \in OrderIds :
            UpdateStatusStart(s, q[1], id, q[2], NULL)
       \/ UpdateStatusStep(s)
       \/ \E id \in OrderIds : CancelStart(s, "c1", id, NULL)
       \/ CancelStep(s)
       \/ \E id \in OrderIds : AcceptStart(s, "r1", id)
       \/ AcceptStep(s)
       \/ PaymentRequests(s)
       \/ \E price \in NewPrices : UpdateMenuItemStart(s, "ro1", "m1", price)
       \/ \E fee \in NewDeliveryFees :
            UpdateRestaurantStart(s, "ro1", "rest1", fee)
       \/ CatalogStep(s)
       \/ ResponseSent(s)

SpecFrame == InitFrame /\ [][NextFrame]_vars

(***************************************************************************)
(* Vocabulary of the properties.                                           *)
(***************************************************************************)
Done(s, op) == reqs[s].op = op /\ reqs[s].pc = "done"

(* The rider profile currently assigned to the order belongs to user u. *)
AssignedRider(u, order) ==
  order.riderId \in DOMAIN riders /\ riders[order.riderId].userId = u

OwnerOf(u, order) ==
  Role(u) = "restaurant" /\ restaurants[order.restaurantId].userId = u

(* The role table of the status update. *)
Permitted(u, order, status) ==
  \/ OwnerOf(u, order) /\ status \in RestaurantTargets
  \/ Role(u) = "rider" /\ AssignedRider(u, order) /\ status \in RiderTargets
  \/ Role(u) = "admin"

Chain == <<"pending", "confirmed", "preparing", "ready", "picked_up",
           "delivered">>

Rank(status) == CHOOSE i \in DOMAIN Chain : Chain[i] = status

InChain(status) == \E i \in DOMAIN Chain : Chain[i] = status

ElapsedMs(r) == (r.at - r.snap.createdAt) * TickMs

(* The timestamp columns of the chain statuses, in lifecycle order. *)
ChainStamps == <<"confirmedAt", "preparingAt", "readyAt", "pickedUpAt",
                 "deliveredAt">>

LifecycleStamps == {ChainStamps[i] : i \in DOMAIN ChainStamps}
                     \cup {"cancelledAt"}

(* Sum of unit price times quantity over the lines i..Len(lines). *)
RECURSIVE LinesFrom(_, _)
LinesFrom(lines, i) ==
  IF i > Len(lines) THEN 0
  ELSE lines[i].price * lines[i].quantity + LinesFrom(lines, i + 1)

(* The subtotal of a request, at the menu's prices. *)
RECURSIVE RequestedFrom(_, _)
RequestedFrom(items, i) ==
  IF i > Len(items) THEN 0
  ELSE menuItems[items[i].menuItemId].price * items[i].quantity
         + RequestedFrom(items, i + 1)

(* The preconditions of order placement, on the rows as they are. *)
PlacementAllowed(r) ==
  /\ r.rest \in DOMAIN restaurants
  /\ restaurants[r.rest].status = "active"
  /\ restaurants[r.rest].isOpen
  /\ r.addr \in DOMAIN addresses
  /\ addresses[r.addr].userId = r.user
  /\ \A i \in DOMAIN r.items :
       /\ r.items[i].menuItemId \in DOMAIN menuItems
       /\ menuItems[r.items[i].menuItemId].restaurantId = r.rest
       /\ menuItems[r.items[i].menuItemId].isAvailable

Active(order) == order.status \notin {"delivered", "cancelled"}

(* The first precondition of acceptOrder that the rows read do not meet,  *)
(* as <<code, message>>; <<200>> when all are met.                        *)
AcceptVerdict(r) ==
  LET profiles == {p \in DOMAIN riders : riders[p].userId = r.user} IN
  IF profiles = {} THEN <<404, "Rider profile not found">>
  ELSE IF \E p \in profiles : ~riders[p].isAvailable
  THEN <<400, "Rider is not available">>
  ELSE IF ~r.found THEN <<404, "Order not found">>
  ELSE IF r.snap.status # "ready"
  THEN <<400, "Order is not ready for pickup">>
  ELSE IF r.snap.riderId # NULL
  THEN <<400, "Order has already been accepted by another rider">>
  ELSE <<200>>

(* No request is between two of its steps. *)
Quiescent == \A s \in Slots : reqs[s].pc \in {"idle", "done"}

(* The request in slot s has just written an order row. *)
WroteOrder(s) == reqs'[s].wrote = 1 /\ reqs[s].wrote = 0

(* What createOrder fixes of an order: its lines and its amounts. *)
Breakdown(order) ==
  <<order.items, order.subtotal, order.deliveryFee, order.platformFee,
    order.taxes, order.total>>

(* n is x percent of amount, rounded half up to a whole number. *)
IsRoundedPercent(n, x, amount) ==
  /\ n \in Nat
  /\ 100 * n <= x * amount + 50
  /\ x * amount + 50 < 100 * n + 100

(* C1: two riders accepting the same ready, unassigned order at the same  *)
(* time: exactly one call succeeds and the order's rider is that rider;   *)
(* the other call fails and does not succeed silently.                    *)
C1_ExactlyOneClaimSucceeds ==
  \A s, t \in Slots :
    (/\ s # t
     /\ Done(s, "acceptOrder") /\ Done(t, "acceptOrder")
     /\ reqs[s].oid = reqs[t].oid /\ reqs[s].user # reqs[t].user
     /\ reqs[s].code = 200)
      => /\ reqs[t].code # 200
         /\ AssignedRider(reqs[s].user, orders[reqs[s].oid])

(* C2: once an order's riderId is set it never afterwards holds a         *)
(* different rider.                                                       *)
C2_RiderNeverReassigned ==
  [][\A o \in DOMAIN orders :
        orders[o].riderId # NULL
          => orders'[o].riderId = orders[o].riderId]_vars

(* C3: once an order is delivered or cancelled its status never changes   *)
(* again (no later status update succeeds).                               *)
C3_TerminalStatusIsFinal ==
  [][\A o \in DOMAIN orders :
        orders[o].status \in {"delivered", "cancelled"}
          => orders'[o].status = orders[o].status]_vars

(* C4: an order becomes cancelled only from pending or confirmed,         *)
(* whichever operation performs the change.                               *)
C4_CancelledOnlyFromPendingOrConfirmed ==
  [][\A o \in DOMAIN orders :
        (orders'[o].status = "cancelled" /\ orders[o].status # "cancelled")
          => orders[o].status \in {"pending", "confirmed"}]_vars

(* C5: no step moves an order's status backward in the chain pending,     *)
(* confirmed, preparing, ready, picked_up, delivered.                     *)
C5_StatusNeverMovesBackward ==
  [][\A o \in DOMAIN orders :
        (InChain(orders[o].status) /\ InChain(orders'[o].status))
          => Rank(orders'[o].status) >= Rank(orders[o].status)]_vars

(* C6: a status update by a caller the role table permits (owner of the   *)
(* order's restaurant for confirmed/preparing/ready/cancelled, the rider  *)
(* assigned to the order for picked_up/delivered, an administrator for    *)
(* any status) succeeds; in particular the rider whose acceptOrder        *)
(* succeeded may move the order to picked_up and delivered.               *)
C6_PermittedCallerSucceeds ==
  \A s \in Slots :
    (Done(s, "updateOrderStatus") /\ reqs[s].found
       /\ Permitted(reqs[s].user, reqs[s].snap, reqs[s].target))
      => reqs[s].code = 200

(* C7: a status update by a caller outside the role table, or with a      *)
(* target the caller's role does not allow, is rejected as unauthorized,  *)
(* writes nothing (order, timestamps, tracking) and publishes nothing.    *)
C7_UnauthorizedUpdateRejected ==
  \A s \in Slots :
    (Done(s, "updateOrderStatus") /\ reqs[s].found
       /\ ~Permitted(reqs[s].user, reqs[s].snap, reqs[s].target))
      => /\ reqs[s].code = 403
         /\ reqs[s].wrote = 0
         /\ reqs[s].pubs = 0
         /\ orders[reqs[s].oid] = reqs[s].snap

C7_Witness ==
  \E s \in Slots :
    /\ Done(s, "updateOrderStatus") /\ reqs[s].found
    /\ reqs[s].user = "r1" /\ reqs[s].target = "picked_up"
    /\ reqs[s].snap.riderId = "rp2"
    /\ reqs[s].code = 403

(* C8: every stored order has total = subtotal + deliveryFee +            *)
(* platformFee + taxes, with subtotal the sum of unit price times         *)
(* quantity, deliveryFee the restaurant's configured fee (40 if unset),   *)
(* platformFee = round(2% of subtotal) and taxes = round(5% of subtotal), *)
(* both non-negative integers.                                            *)
C8_OrderTotals ==
  \A o \in DOMAIN orders :
    LET order == orders[o]
        fee == restaurants[order.restaurantId].deliveryFee
    IN /\ order.subtotal = LinesFrom(order.items, 1)
       /\ \A i \in DOMAIN order.items :
            order.items[i].price = menuItems[order.items[i].menuItemId].price
       /\ order.deliveryFee = IF fee = NONE THEN 40 ELSE fee
       /\ IsRoundedPercent(order.platformFee, 2, order.subtotal)
       /\ IsRoundedPercent(order.taxes, 5, order.subtotal)
       /\ order.total = order.subtotal + order.deliveryFee
                          + order.platformFee + order.taxes

(* C9: a createOrder whose subtotal is below the restaurant's minimum is  *)
(* rejected whatever its other fields, and persists and publishes         *)
(* nothing: it never reaches its writes, and no stored order is below     *)
(* its restaurant's minimum.                                              *)
C9_BelowMinimumRejected ==
  /\ \A s \in Slots :
       (/\ reqs[s].op = "createOrder"
        /\ reqs[s].rest \in DOMAIN restaurants
        /\ RequestedFrom(reqs[s].items, 1)
             < restaurants[reqs[s].rest].minimumOrder)
         => /\ reqs[s].pc \notin {"createOrder", "createTracking"}
            /\ reqs[s].wrote = 0 /\ reqs[s].pubs = 0
            /\ reqs[s].pc = "done" => reqs[s].code = 400
  /\ \A o \in DOMAIN orders :
       orders[o].subtotal >= restaurants[orders[o].restaurantId].minimumOrder

C9_Witness ==
  \E s \in Slots :
    /\ Done(s, "createOrder")
    /\ reqs[s].rest \in DOMAIN restaurants
    /\ RequestedFrom(reqs[s].items, 1)
         < restaurants[reqs[s].rest].minimumOrder
    /\ reqs[s].addr = "a1"
    /\ \A i \in DOMAIN reqs[s].items :
         menuItems[reqs[s].items[i].menuItemId].restaurantId = reqs[s].rest
    /\ reqs[s].code = 400
    /\ reqs[s].message = "Minimum order value"
    /\ orders = <<>> /\ tracking = <<>> /\ published = <<>>

(* C11: every lifecycle operation whose order write has been persisted    *)
(* has appended exactly one tracking entry when it completes, also when   *)
(* it failed between the two writes; and the timestamps of an order's     *)
(* tracking entries never decrease in append order.                       *)
C11_OneTrackingEntryPerOperation ==
  /\ \A s \in Slots :
       (reqs[s].op \in LifecycleOps /\ reqs[s].pc = "done"
          /\ reqs[s].wrote >= 1)
         => reqs[s].wrote = 2
  /\ \A i, j \in DOMAIN tracking :
       (i < j /\ tracking[i].orderId = tracking[j].orderId)
         => tracking[i].timestamp <= tracking[j].timestamp

(* C12: the tracking log is append-only, an order's first entry has status *)
(* pending, and after every completed operation (payment confirmation,    *)
(* webhook and refund included) the status label of the order's last      *)
(* tracking entry is the order's current status.                          *)
C12_TrackingFollowsStatus ==
  [][/\ Len(tracking') >= Len(tracking)
     /\ SubSeq(tracking', 1, Len(tracking)) = tracking
     /\ \A o \in DOMAIN orders' :
          LET entries == TrackingOf(o)' IN
          entries # <<>>
            => /\ entries[1].status = "pending"
               /\ Quiescent'
                    => entries[Len(entries)].status = orders'[o].status]_vars

(* C13: the listing of an available rider holds no order that is not     *)
(* ready, none that has a riderId and, when the rider sends a location   *)
(* and the restaurant's location is known, none whose restaurant is      *)
(* farther from the rider than the radius.                               *)
C13_ListingExcludes ==
  \A s \in Slots :
    LET r == reqs[s] IN
    (Done(s, "listAvailableOrders") /\ r.code = 200)
      => \A i \in DOMAIN r.result :
           LET order == orders[r.result[i]]
               restaurant == restaurants[order.restaurantId]
           IN /\ order.status = "ready"
              /\ order.riderId = NULL
              /\ (/\ r.data.latitude # NONE /\ r.data.longitude # NONE
                  /\ restaurant.latitude # NONE
                  /\ restaurant.longitude # NONE)
                   => WithinRadius(r.data.latitude, restaurant.latitude,
                                   r.data.radius)

(* C14: each lifecycle timestamp of an order is set at most once: no step *)
(* overwrites a timestamp that already has a value, a status write sets  *)
(* only the timestamp of the new status, and the set timestamps are in   *)
(* lifecycle order.                                                      *)
C14_TimestampsSetOnce ==
  [][\A o \in DOMAIN orders :
       /\ \A f \in LifecycleStamps :
            orders[o][f] # NONE => orders'[o][f] = orders[o][f]
       /\ \A i, j \in DOMAIN ChainStamps :
            (i < j /\ orders'[o][ChainStamps[i]] # NONE
                   /\ orders'[o][ChainStamps[j]] # NONE)
              => orders'[o][ChainStamps[i]] <= orders'[o][ChainStamps[j]]]_vars

(* C15: an order is created only by createOrder, its status is changed    *)
(* only by updateOrderStatus and cancelOrder, and no order is ever        *)
(* removed from the store.                                                *)
C15_OnlyTransitionsChangeStatus ==
  [][/\ Len(orders') >= Len(orders)
     /\ Len(orders') > Len(orders)
          => \E s \in Slots : reqs'[s].op = "createOrder" /\ WroteOrder(s)
     /\ \A o \in DOMAIN orders :
          orders'[o].status # orders[o].status
            => \E s \in Slots :
                 /\ reqs'[s].op \in {"updateOrderStatus", "cancelOrder"}
                 /\ reqs'[s].oid = o
                 /\ WroteOrder(s)]_vars

(* C16: the line items (with their unit prices) and the monetary          *)
(* breakdown of a stored order are left unchanged by every step: menu     *)
(* price updates, fee changes, status updates, cancel, claim, payments.   *)
C16_BreakdownFrozen ==
  [][\A o \in DOMAIN orders :
       /\ o \in DOMAIN orders'
       /\ Breakdown(orders'[o]) = Breakdown(orders[o])]_vars

(* The price and the fee have changed since the order was placed, and    *)
(* the order has been paid and has left pending.                         *)
C16_Witness ==
  \E o \in DOMAIN orders :
    /\ \E i \in DOMAIN orders[o].items :
         orders[o].items[i].price
           # menuItems[orders[o].items[i].menuItemId].price
    /\ orders[o].deliveryFee # restaurants[orders[o].restaurantId].deliveryFee
    /\ orders[o].paymentStatus = "completed"
    /\ orders[o].status # "pending"
    /\ orders[o].total = orders[o].subtotal + orders[o].deliveryFee
                           + orders[o].platformFee + orders[o].taxes

(* C17: each rider holds at most one active claim: no two orders that are *)
(* neither delivered nor cancelled carry the same riderId.               *)
C17_OneActiveClaimPerRider ==
  \A o1, o2 \in DOMAIN orders :
    (/\ o1 # o2
     /\ orders[o1].riderId # NULL
     /\ Active(orders[o1]) /\ Active(orders[o2]))
      => orders[o2].riderId # orders[o1].riderId

(* C18: a lifecycle operation whose order write and tracking write have   *)
(* been persisted returns its success result, also when its publish      *)
(* step failed.                                                          *)
C18_PublishFailureSwallowed ==
  \A s \in Slots :
    (reqs[s].op \in LifecycleOps /\ reqs[s].pc = "done"
       /\ reqs[s].wrote = 2)
      => reqs[s].code \in {200, 201}

(* C19: createOrder succeeds only if the restaurant exists, is active and *)
(* is open, the address exists and belongs to the customer, and every    *)
(* requested item belongs to the restaurant and is available; otherwise  *)
(* it fails and persists no order, order item or tracking entry.         *)
C19_CreatePreconditions ==
  /\ \A s \in Slots :
       reqs[s].op = "createOrder"
         => IF PlacementAllowed(reqs[s])
            THEN reqs[s].pc = "done" /\ reqs[s].code # 201
                   => reqs[s].wrote = 0
            ELSE /\ reqs[s].pc \notin {"createOrder", "createTracking"}
                 /\ reqs[s].wrote = 0 /\ reqs[s].pubs = 0
                 /\ reqs[s].pc = "done" => reqs[s].code = 400
  /\ \A o \in DOMAIN orders :
       /\ orders[o].restaurantId \in DOMAIN restaurants
       /\ orders[o].addressId \in DOMAIN addresses
       /\ addresses[orders[o].addressId].userId = orders[o].customerId
       /\ \A i \in DOMAIN orders[o].items :
            menuItems[orders[o].items[i].menuItemId].restaurantId
              = orders[o].restaurantId
  /\ Len(tracking) <= Len(orders)

(* A request for two items of the restaurant, one of them unavailable. *)
C19_Witness ==
  \E s \in Slots :
    /\ Done(s, "createOrder")
    /\ reqs[s].rest \in DOMAIN restaurants
    /\ restaurants[reqs[s].rest].status = "active"
    /\ restaurants[reqs[s].rest].isOpen
    /\ reqs[s].addr \in DOMAIN addresses
    /\ addresses[reqs[s].addr].userId = reqs[s].user
    /\ Len(reqs[s].items) = 2
    /\ menuItems[reqs[s].items[1].menuItemId].isAvailable
    /\ menuItems[reqs[s].items[1].menuItemId].restaurantId = reqs[s].rest
    /\ ~menuItems[reqs[s].items[2].menuItemId].isAvailable
    /\ menuItems[reqs[s].items[2].menuItemId].restaurantId = reqs[s].rest
    /\ reqs[s].code = 400
    /\ reqs[s].message = "Some menu items are not available"
    /\ orders = <<>> /\ tracking = <<>> /\ published = <<>>

(* C20: acceptOrder checks, in this order, that the rider profile exists, *)
(* that the rider is available, that the order exists, that its status   *)
(* is ready and that it has no rider, and fails on the first check not   *)
(* met; a failed acceptOrder has written nothing (riderId, tracking log) *)
(* and published nothing.                                                *)
C20_AcceptPreconditions ==
  \A s \in Slots :
    LET r == reqs[s] IN
    Done(s, "acceptOrder")
      => /\ r.code = AcceptVerdict(r)[1]
         /\ r.code # 200
              => /\ r.message = AcceptVerdict(r)[2]
                 /\ r.wrote = 0 /\ r.pubs = 0

(* An available rider is refused a ready order that another rider holds. *)
C20_Witness ==
  \E s \in Slots :
    /\ Done(s, "acceptOrder")
    /\ reqs[s].user = "r1" /\ reqs[s].found
    /\ reqs[s].snap.status = "ready" /\ reqs[s].snap.riderId = "rp2"
    /\ reqs[s].code = 400
    /\ reqs[s].message = "Order has already been accepted by another rider"
    /\ orders[reqs[s].oid] = reqs[s].snap

(* C10: the customer's cancelOrder succeeds on a pending order at any     *)
(* elapsed time; on a confirmed order it succeeds up to 5 minutes after   *)
(* creation and is rejected (400), leaving the order unchanged, after     *)
(* more than 5 minutes.                                                   *)
C10_CancelWindow ==
  \A s \in Slots :
    LET r == reqs[s]
        succeeded == /\ r.code = 200
                     /\ orders[r.oid].status = "cancelled"
                     /\ orders[r.oid].cancelledAt = r.at
        refused == /\ r.code = 400
                   /\ r.wrote = 0 /\ r.pubs = 0
                   /\ orders[r.oid] = r.snap
    IN (Done(s, "cancelOrder") /\ r.found /\ r.snap.customerId = r.user)
         => /\ r.snap.status = "pending" => succeeded
            /\ (r.snap.status = "confirmed"
                  /\ ElapsedMs(r) <= 5 * 60 * 1000) => succeeded
            /\ (r.snap.status = "confirmed"
                  /\ ElapsedMs(r) > 5 * 60 * 1000) => refused

C10_Witness ==
  \E s \in Slots :
    /\ Done(s, "cancelOrder") /\ reqs[s].found
    /\ reqs[s].snap.customerId = reqs[s].user
    /\ reqs[s].snap.status = "confirmed"
    /\ ElapsedMs(reqs[s]) = 4 * 60 * 1000
    /\ reqs[s].code = 200

(* The cancelOrder request in slot s writes the order in this step. *)
CancelWrites(s) ==
  /\ reqs[s].op = "cancelOrder" /\ reqs[s].pc = "update"
  /\ reqs'[s].pc = "createTracking"

(* The request in slot s gets its response in this step. *)
Answered(s, op) == reqs[s].pc # "done" /\ reqs'[s].op = op /\ reqs'[s].pc = "done"

(* The answer cancelOrder owes to caller u for an order row seen elapsed  *)
(* milliseconds after its creation.                                       *)
CancelVerdict(found, u, order, elapsed) ==
  IF ~found THEN <<404, "Order not found">>
  ELSE IF order.customerId # u
  THEN <<403, "Not authorized to cancel this order">>
  ELSE IF order.status \notin {"pending", "confirmed"}
  THEN <<400, "Order cannot be cancelled at this stage">>
  ELSE IF elapsed > 5 * 60 * 1000 /\ order.status = "confirmed"
  THEN <<400, "Order cannot be cancelled after 5 minutes of confirmation">>
  ELSE <<200, "Order cancelled successfully">>

(* The verdict on the row of the store at this moment. *)
VerdictNow(u, id) ==
  IF Exists(id)
  THEN CancelVerdict(TRUE, u, orders[id],
                     (now - orders[id].createdAt) * TickMs)
  ELSE CancelVerdict(FALSE, u, NULL, 0)

(* The verdict on the row the request read. *)
VerdictRead(r) ==
  IF r.found THEN CancelVerdict(TRUE, r.user, r.snap, ElapsedMs(r))
  ELSE CancelVerdict(FALSE, r.user, NULL, 0)

(* C21 as stated: a cancelOrder call that violates a precondition (no     *)
(* such order, foreign order, status not pending or confirmed, confirmed  *)
(* past the window) is answered with the matching rejection and changes   *)
(* neither the order nor the tracking log, also when another request      *)
(* changed the order after cancelOrder read it: cancelOrder writes only   *)
(* to an order that satisfies the preconditions at the write.             *)
C21_CancelRejectedWithoutMutation ==
  [][\A s \in Slots :
       /\ CancelWrites(s) => VerdictNow(reqs[s].user, reqs[s].oid)[1] = 200
       /\ (Answered(s, "cancelOrder") /\ reqs[s].pc = "idle"
             /\ VerdictNow(reqs'[s].user, reqs'[s].oid)[1] # 200) =>
            /\ <<reqs'[s].code, reqs'[s].message>> =
                 VerdictNow(reqs'[s].user, reqs'[s].oid)
            /\ reqs'[s].wrote = 0 /\ reqs'[s].pubs = 0
            /\ orders' = orders /\ tracking' = tracking
    ]_vars

(* C21 as amended: the verdict is the one on the order as cancelOrder     *)
(* read it.  A call whose read violates a precondition is answered with   *)
(* the matching rejection in the step of the read, which changes nothing, *)
(* and has written and published nothing; a call writes only if its read  *)
(* satisfied every precondition.                                          *)
C21_CancelRejectedOnRead ==
  [][\A s \in Slots :
       /\ CancelWrites(s) => VerdictRead(reqs[s])[1] = 200
       /\ Answered(s, "cancelOrder") =>
            /\ <<reqs'[s].code, reqs'[s].message>> = VerdictRead(reqs'[s])
            /\ reqs'[s].code # 200 =>
                 /\ reqs'[s].wrote = 0 /\ reqs'[s].pubs = 0
                 /\ orders' = orders /\ tracking' = tracking
    ]_vars

(* A cancel of a confirmed order, read more than 5 minutes after the      *)
(* order's creation, has been refused while another request was writing   *)
(* the order.                                                             *)
C21_Witness ==
  \E s, other \in Slots :
    /\ Done(s, "cancelOrder") /\ reqs[s].found
    /\ reqs[s].snap.status = "confirmed" /\ ElapsedMs(reqs[s]) > 5 * 60 * 1000
    /\ reqs[s].code = 400 /\ reqs[s].wrote = 0
    /\ reqs[other].op = "updateOrderStatus"
    /\ reqs[other].pc = "createTracking"

(* The notifications published in this step. *)
NewlyPublished ==
  {published'[i] : i \in (Len(published) + 1)..Len(published')}

(* The topics a completed request owes a notification to: the            *)
(* restaurant's for a placement and a cancellation, the customer's and    *)
(* the order's for a status change, the customer's and the restaurant's   *)
(* for a claim.                                                           *)
OwedTopics(r, order) ==
  CASE r.op = "createOrder" -> {<<"restaurant", order.restaurantId>>}
    [] r.op = "cancelOrder" -> {<<"restaurant", order.restaurantId>>}
    [] r.op = "acceptOrder" -> {<<"user", order.customerId>>,
                                <<"restaurant", order.restaurantId>>}
    [] OTHER -> {<<"user", order.customerId>>, <<"order", r.oid>>}

(* The request has set the status of its order: a lifecycle operation,   *)
(* a payment confirmation of a pending order, or the webhook's            *)
(* payment_intent.succeeded event.                                        *)
SetsStatus(r) ==
  \/ r.op \in LifecycleOps
  \/ r.op = "confirmPayment" /\ r.snap.status = "pending"
  \/ r.op = "webhook"

(* C22: every lifecycle transition of an order publishes: createOrder to  *)
(* the restaurant's topic, a status change to the customer's and the      *)
(* order's topics (carrying the new status), a cancellation to the        *)
(* restaurant's topic, a claim to the customer's and the restaurant's     *)
(* topics; no request that set an order's status completes without a      *)
(* publish.                                                               *)
C22_EveryTransitionPublishes ==
  [][\A s \in Slots :
       (/\ reqs[s].pc = "createTracking"
        /\ Answered(s, reqs[s].op)
        /\ reqs'[s].code \in {200, 201}
        /\ SetsStatus(reqs[s]))
         => LET r == reqs[s]
                order == orders[r.oid]
            IN /\ \A topic \in OwedTopics(r, order) :
                    \E e \in NewlyPublished :
                      e.topic = topic /\ e.orderId = r.oid
               /\ r.op = "updateOrderStatus"
                    => \A e \in NewlyPublished : e.status = r.target
    ]_vars

(* C23: the listing comes in ascending order of the time the orders       *)
(* became ready (readyAt), whatever the order of their placement, and     *)
(* holds at most 20 orders.                                               *)
C23_OldestReadyFirstAtMostTwenty ==
  \A s \in Slots :
    LET r == reqs[s] IN
    (Done(s, "listAvailableOrders") /\ r.code = 200)
      => /\ Len(r.result) <= 20
         /\ \A i, j \in DOMAIN r.result :
              i < j => orders[r.result[i]].readyAt
                         <= orders[r.result[j]].readyAt

(* A backlog of more than 20 ready orders, made ready in the reverse of   *)
(* their placement, has been listed: 20 orders, the last placed first.    *)
C23_Witness ==
  \E s \in Slots :
    /\ Done(s, "listAvailableOrders") /\ reqs[s].code = 200
    /\ Cardinality(ReadyUnassigned) > 20
    /\ Len(reqs[s].result) = 20
    /\ reqs[s].result[1] = Len(orders)
    /\ reqs[s].result[1] > reqs[s].result[2]

(* The restaurant row holds a latitude and a longitude (0 included). *)
Recorded(restaurant) ==
  restaurant.latitude # NONE /\ restaurant.longitude # NONE

(* The ids of a listing. *)
Listed(r) == {r.result[i] : i \in DOMAIN r.result}

(* C24: with a rider location supplied, the distance filter drops an      *)
(* order exactly if its restaurant has a recorded latitude and longitude  *)
(* (a coordinate equal to 0 included) and is farther away than the        *)
(* radius: an order of a restaurant without recorded location is always   *)
(* retained, one of a recorded restaurant beyond the radius never is.     *)
C24_DroppedOnlyBeyondRadius ==
  \A s \in Slots :
    LET r == reqs[s] IN
    (/\ Done(s, "listAvailableOrders") /\ r.code = 200
     /\ r.data.latitude # NONE /\ r.data.longitude # NONE
     /\ Cardinality(ReadyUnassigned) <= PageSize)
      => \A o \in ReadyUnassigned :
           LET restaurant == restaurants[orders[o].restaurantId] IN
           o \in Listed(r)
             <=> ~(/\ Recorded(restaurant)
                   /\ ~WithinRadius(r.data.latitude, restaurant.latitude,
                                    r.data.radius))

(* The ready, unassigned orders the distance filter owes the rider: those *)
(* of a restaurant within the radius or without recorded location.        *)
WithinReach(r) ==
  {o \in ReadyUnassigned :
     LET restaurant == restaurants[orders[o].restaurantId] IN
     Recorded(restaurant)
       => WithinRadius(r.data.latitude, restaurant.latitude, r.data.radius)}

(* C25: a listing with a location hides no candidate within the radius    *)
(* because of candidates outside it: when fewer than 20 ready, unassigned *)
(* orders are within reach, all of them are returned, however many older  *)
(* ready orders lie outside the radius.                                   *)
C25_InRadiusNeverHidden ==
  \A s \in Slots :
    LET r == reqs[s] IN
    (/\ Done(s, "listAvailableOrders") /\ r.code = 200
     /\ r.data.latitude # NONE /\ r.data.longitude # NONE
     /\ Cardinality(WithinReach(r)) < 20)
      => WithinReach(r) \subseteq Listed(r)

(* The rider profile of user u holds the claim on the order. *)
ClaimedBy(u, order) == order.riderId # NULL /\ order.riderId \in RiderOf(u)

(* C26: once a rider's acceptOrder on an order has succeeded, the reads   *)
(* treat the order as the rider's own: GET /riders/orders of that rider   *)
(* lists it, and getOrder and getOrderTracking of that rider on it are    *)
(* authorized.                                                            *)
C26_ClaimedOrderIsRidersOwn ==
  \A s \in Slots :
    LET r == reqs[s] IN
    /\ Done(s, "getRiderOrders")
         => \A o \in DOMAIN orders :
              ClaimedBy(r.user, orders[o]) => o \in Listed(r)
    /\ ((Done(s, "getOrder") \/ Done(s, "getOrderTracking"))
          /\ Exists(r.oid) /\ ClaimedBy(r.user, orders[r.oid]))
         => r.code = 200

(* C27: after any sequence or interleaving of the address operations of   *)
(* one user (create, update, set-default, delete), once no request is in  *)
(* flight, the user has at most one address with isDefault = true.        *)
C27_AtMostOneDefault ==
  Quiescent =>
    \A u \in Customers :
      Cardinality({a \in AddressesOf(u) : addresses[a].isDefault}) <= 1

(* C28: no active order (pending, confirmed, preparing, ready or          *)
(* picked_up) references an address that has been deleted, also when the  *)
(* createOrder that uses the address runs while the address is deleted.   *)
C28_ActiveOrderKeepsItsAddress ==
  \A o \in DOMAIN orders :
    orders[o].status \in {"pending", "confirmed", "preparing", "ready",
                          "picked_up"}
      => orders[o].addressId \in DOMAIN addresses

(* The refunds the payment processor has issued for order o. *)
RefundsOf(o) == {k \in DOMAIN stripe.refunds : stripe.refunds[k].orderId = o}

(* C29: over the payment operations (create-intent, confirm-payment,      *)
(* webhook events, refund) the processor is asked for at most one refund  *)
(* per order, and an order whose paymentStatus is refunded never returns  *)
(* to completed.                                                          *)
C29_RefundedOnceAndForGood ==
  [][/\ \A o \in DOMAIN orders : Cardinality(RefundsOf(o)') <= 1
     /\ \A o \in DOMAIN orders :
          orders[o].paymentStatus = "refunded"
            => orders'[o].paymentStatus # "completed"]_vars

(* The reviews that name order o. *)
ReviewsOfOrder(o) == {k \in DOMAIN reviews : reviews[k].orderId = o}

(* C30: a customer has at most one review per order: over any sequence or *)
(* interleaving of create-review calls that name the same delivered       *)
(* order, one review of that order is stored, and every call that does    *)
(* not store it is rejected with 'Review already exists for this order'.  *)
C30_OneReviewPerOrder ==
  /\ \A o \in DOMAIN orders : Cardinality(ReviewsOfOrder(o)) <= 1
  /\ \A s \in Slots :
       LET r == reqs[s] IN
       (/\ Done(s, "createReview") /\ r.wrote = 0
        /\ r.found /\ r.snap.status = "delivered"
        /\ r.snap.customerId = r.user /\ r.snap.restaurantId = r.rest)
         => /\ r.code = 400
            /\ r.message = "Review already exists for this order"
            /\ Cardinality(ReviewsOfOrder(r.oid)) = 1
====
